---- MODULE Spec2Model ----
(***************************************************************************)
(* Analysis-and-risk decision pipeline of the trading back end:            *)
(* MarketAnalyzer.analyze_symbol (src/analyzer.py) followed by             *)
(* RiskManager.assess_trade_risk (src/risk_manager.py).                    *)
(*                                                                         *)
(* Numbers.  Risk scores are carried in tenths (5.0 is 50), percentages    *)
(* and ratios in hundredths (1.5% is 150, a risk/reward ratio of 0.6 is    *)
(* 60), prices and the ATR in integer price points.  All penalties of the  *)
(* sub-scorers are multiples of 0.5, which binary floating point holds     *)
(* exactly, so the sub-scores are exact.                                   *)
(*                                                                         *)
(* Mappings.  dict.get(key, default) is modelled by its result: a section  *)
(* or key that is missing from the analysis is the record of the defaults  *)
(* the code substitutes.  A section whose value the scorer cannot process  *)
(* (None where a mapping or a number is expected) has ok = FALSE and takes *)
(* the scorer's except branch.                                             *)
(***************************************************************************)
EXTENDS Integers, Sequences, FiniteSets, TLC

VARIABLES
    df,             \* the caller's bar window (pandas DataFrame), abstracted
    analysis,       \* record returned by analyze_symbol / passed to assess_trade_risk
    risk_config,    \* config['risk'] handed to assess_trade_risk
    fp_tie_up,      \* direction in which round(weighted_sum, 1) falls on a binary tie
    assessment,     \* record returned by assess_trade_risk
    risk_history,   \* RiskManager.risk_history
    violations,     \* RiskManager.violations
    trade_journal,  \* RiskManager.trade_journal
    clock,          \* datetime.now()
    pc,             \* position of the caller (of each thread, when there are several)
    observed,       \* the completed calls: inputs and results without timestamps
    solo,           \* what each thread's call returns when it runs alone
    backend,        \* TraderGuardianBackend: flags, signal queue, shared file, threads
    connector       \* MT5Connector: connection state, lock, command and response queues

vars == <<df, analysis, risk_config, fp_tie_up, assessment, risk_history,
          violations, trade_journal, clock, pc, observed, solo, backend, connector>>

NoValue == [none |-> TRUE]

\* an exception that leaves a try block
Raised == [raised |-> TRUE]

Max(a, b) == IF a >= b THEN a ELSE b
Min(a, b) == IF a <= b THEN a ELSE b
Abs(a) == IF a >= 0 THEN a ELSE -a

\* round(n / d) to the nearest integer, ties to even (Python round)
RoundDiv(n, d) ==
    LET q == n \div d
        r == n % d
    IN  IF 2 * r < d THEN q
        ELSE IF 2 * r > d THEN q + 1
        ELSE IF q % 2 = 0 THEN q ELSE q + 1

RECURSIVE SeqSum(_)
SeqSum(s) == IF s = <<>> THEN 0 ELSE Head(s) + SeqSum(Tail(s))

RECURSIVE SeqMax(_)
SeqMax(s) == IF Len(s) = 1 THEN s[1] ELSE Max(s[1], SeqMax(Tail(s)))

RECURSIVE SeqMin(_)
SeqMin(s) == IF Len(s) = 1 THEN s[1] ELSE Min(s[1], SeqMin(Tail(s)))

Range(s) == {s[i] : i \in 1..Len(s)}

\* list(dict.fromkeys(xs)): drop repeats, keep the order of first occurrence
RECURSIVE DedupFrom(_, _)
DedupFrom(s, seen) ==
    IF s = <<>> THEN <<>>
    ELSE IF Head(s) \in seen THEN DedupFrom(Tail(s), seen)
    ELSE <<Head(s)>> \o DedupFrom(Tail(s), seen \cup {Head(s)})

Dedup(s) == DedupFrom(s, {})

(***************************************************************************)
(* One adjustment of a sub-scorer: the change of the score, the factor it  *)
(* appends ("" for none) and the warning it appends ("" for none).         *)
(***************************************************************************)
Adj(d, f, w) == [d |-> d, f |-> f, w |-> w]

When(cond, item) == IF cond THEN <<item>> ELSE <<>>

Deltas(items) == [i \in 1..Len(items) |-> items[i].d]
Texts(items, k) ==
    LET all == [i \in 1..Len(items) |-> IF k = "f" THEN items[i].f ELSE items[i].w]
    IN SelectSeq(all, LAMBDA t : t # "")

\* score = max(1, min(10, score))
ClampRisk_NoClamp(s) == s
ClampRisk(s) == Max(10, Min(100, s))

\* the body of a sub-scorer: start from base, apply the adjustments, clamp
ScoredFrom(base, items) ==
    [score    |-> ClampRisk(base + SeqSum(Deltas(items))),
     factors  |-> Texts(items, "f"),
     warnings |-> Texts(items, "w")]

\* score = 5.0 at the start of every sub-scorer
Scored(items) == ScoredFrom(50, items)

\* except branch of every sub-scorer
ScorerFault == [score |-> 50, factors |-> <<"error in analysis">>, warnings |-> <<>>]

Has(word, label) ==
    CASE word = "BULLISH" -> label \in {"BULLISH", "STRONG_BULLISH", "BULLISH_CROSS",
                                        "BULLISH_DIVERGENCE"}
      [] word = "BEARISH" -> label \in {"BEARISH", "STRONG_BEARISH", "BEARISH_CROSS",
                                        "BEARISH_DIVERGENCE"}

(***************************************************************************)
(* RiskManager._check_indicator_alignment                                  *)
(***************************************************************************)
CheckIndicatorAlignment(t) ==
    LET votes ==
            When(t.trend_direction # "NEUTRAL",
                 IF Has("BULLISH", t.trend_direction) THEN 1 ELSE -1)
         \o (IF Has("BULLISH", t.macd_cross) THEN <<1>>
             ELSE IF Has("BEARISH", t.macd_cross) THEN <<-1>> ELSE <<>>)
         \o (IF t.rsi_signal \in {"BULLISH", "OVERSOLD"} THEN <<1>>
             ELSE IF t.rsi_signal \in {"BEARISH", "OVERBOUGHT"} THEN <<-1>> ELSE <<>>)
         \o (IF Has("BULLISH", t.stoch_signal) THEN <<1>>
             ELSE IF Has("BEARISH", t.stoch_signal) THEN <<-1>> ELSE <<>>)
        bull  == Cardinality({i \in 1..Len(votes) : votes[i] > 0})
        bear  == Cardinality({i \in 1..Len(votes) : votes[i] < 0})
        total == Len(votes)
    IN  IF total = 0 THEN 50
        ELSE IF bull = total THEN 100
        ELSE IF bear = total THEN 0
        ELSE (Max(bull, bear) * 100) \div total

(***************************************************************************)
(* RiskManager._check_conflicting_signals: the warnings it returns         *)
(***************************************************************************)
CheckConflictingSignals(t) ==
       When(Has("BULLISH", t.trend_direction) /\ t.rsi_signal = "OVERBOUGHT",
            "conflict: uptrend but RSI overbought")
    \o When(~Has("BULLISH", t.trend_direction) /\ Has("BEARISH", t.trend_direction)
              /\ t.rsi_signal = "OVERSOLD",
            "conflict: downtrend but RSI oversold")
    \o When(t.rsi_divergence # "NO_DIVERGENCE"
              /\ \/ Has("BULLISH", t.trend_direction) /\ Has("BEARISH", t.rsi_divergence)
                 \/ Has("BEARISH", t.trend_direction) /\ Has("BULLISH", t.rsi_divergence),
            "conflict: divergence against the trend")

(***************************************************************************)
(* RiskManager._assess_technical_risk                                      *)
(***************************************************************************)
AssessTechnicalRisk(a) ==
    LET t == a.technical
        alignment == CheckIndicatorAlignment(t)
        conflicts == CheckConflictingSignals(t)
        items ==
            (IF t.trend_strength >= 80 THEN <<Adj(-15, "strong trend", "")>>
             ELSE IF t.trend_strength <= 20
                  THEN <<Adj(20, "weak trend", "market trend is weak")>>
             ELSE <<>>)
         \o (IF alignment >= 80 THEN <<Adj(-10, "indicators aligned", "")>>
             ELSE IF alignment <= 40
                  THEN <<Adj(15, "indicators not aligned", "indicators are not aligned")>>
             ELSE <<>>)
         \o (IF conflicts # <<>>
             THEN <<Adj(Len(conflicts) * 5, "conflicting signals", conflicts[1])>>
                  \o [i \in 1..(Len(conflicts) - 1) |-> Adj(0, "", conflicts[i + 1])]
             ELSE <<>>)
         \o (IF t.momentum_score > 70 THEN <<Adj(-5, "strong momentum", "")>>
             ELSE IF t.momentum_score < 30
                  THEN <<Adj(10, "weak momentum", "market momentum is weak")>>
             ELSE <<>>)
    IN  IF ~t.ok THEN ScorerFault ELSE Scored(items)

(***************************************************************************)
(* RiskManager._assess_price_risk                                          *)
(***************************************************************************)
AssessPriceRisk(a) ==
    LET p == a.price
        items ==
            (IF Abs(p.daily_change_percent) > 300
             THEN <<Adj(20, "severe daily change", "severe price change in one day")>>
             ELSE IF Abs(p.daily_change_percent) > 150
                  THEN <<Adj(10, "notable daily change", "")>>
             ELSE <<>>)
         \o (IF p.daily_range_percent > 200 THEN <<Adj(15, "wide daily range", "")>>
             ELSE IF p.daily_range_percent > 100 THEN <<Adj(5, "medium daily range", "")>>
             ELSE <<>>)
         \o (IF p.position_in_range > 80
             THEN <<Adj(10, "price at top of daily range",
                        "price near daily high - possible resistance")>>
             ELSE IF p.position_in_range < 20
                  THEN <<Adj(10, "price at bottom of daily range",
                             "price near daily low - possible support")>>
             ELSE <<>>)
         \o (IF p.candle_type = "DOJI" THEN <<Adj(5, "doji candle", "")>>
             ELSE IF p.candle_type = "MARUBOZU" THEN <<Adj(10, "marubozu candle", "")>>
             ELSE <<>>)
    IN  IF ~p.ok THEN ScorerFault
        ELSE IF p.current <= 0
             THEN [score |-> 100, factors |-> <<"invalid price">>,
                   warnings |-> <<"price zero or negative">>]
        ELSE Scored(items)

(***************************************************************************)
(* RiskManager._validate_patterns: how many patterns are valid             *)
(***************************************************************************)
ValidatePatterns(patterns) ==
    Cardinality({i \in 1..Len(patterns) :
                    /\ patterns[i].complete
                    /\ patterns[i].strength \in {"STRONG", "MEDIUM", "WEAK"}})

(***************************************************************************)
(* RiskManager._assess_pattern_risk                                        *)
(***************************************************************************)
AssessPatternRisk(a) ==
    LET pd == a.patterns
        n == Len(pd.patterns)
        directed == {i \in 1..n : pd.patterns[i].direction # "NEUTRAL"}
        bull == Cardinality({i \in directed : Has("BULLISH", pd.patterns[i].direction)})
        bear == Cardinality({i \in directed : Has("BEARISH", pd.patterns[i].direction)})
        invalid == n - ValidatePatterns(pd.patterns)
        items ==
            When(n >= 3, Adj(10, "many patterns",
                             "multiple patterns may give conflicting signals"))
         \o (IF pd.strength >= 70 THEN <<Adj(-15, "strong patterns", "")>>
             ELSE IF pd.strength <= 30
                  THEN <<Adj(15, "weak patterns", "detected patterns are weak")>>
             ELSE <<>>)
         \o When(pd.has_reversal /\ pd.has_continuation,
                 Adj(20, "reversal and continuation patterns together",
                     "reversal and continuation patterns overlap"))
         \o When(bull > 0 /\ bear > 0,
                 Adj(15, "patterns of opposite direction",
                     "bullish and bearish patterns present together"))
         \o When(invalid > 0, Adj(invalid * 5, "invalid patterns", ""))
    IN  IF ~pd.ok THEN ScorerFault
        ELSE IF n = 0
             THEN [score |-> 50, factors |-> <<"no clear pattern">>, warnings |-> <<>>]
        ELSE Scored(items)

(***************************************************************************)
(* RiskManager._assess_level_risk                                          *)
(***************************************************************************)
AssessLevelRisk(a) ==
    LET k == a.key_levels
        price == a.price.current
        sup == k.support
        res == k.resistance
        strongSupport == /\ k.support_strengths # <<>>
                         /\ SeqSum(k.support_strengths) >= 7 * Len(k.support_strengths)
        strongResistance == /\ k.resistance_strengths # <<>>
                            /\ SeqSum(k.resistance_strengths)
                                   >= 7 * Len(k.resistance_strengths)
        items ==
            (IF k.support_distance < 50 THEN <<Adj(-10, "near strong support", "")>>
             ELSE IF k.support_distance < 100 THEN <<Adj(-5, "near support", "")>>
             ELSE <<>>)
         \o (IF k.resistance_distance < 50
             THEN <<Adj(10, "near strong resistance",
                        "price near resistance - possible reversal")>>
             ELSE IF k.resistance_distance < 100 THEN <<Adj(5, "near resistance", "")>>
             ELSE <<>>)
         \o When(strongSupport, Adj(-5, "strong supports", ""))
         \o When(strongResistance, Adj(5, "strong resistances", ""))
         \o When(sup # <<>> /\ price < SeqMin(sup),
                 Adj(20, "support broken", "support level broken - decline may continue"))
         \o When(res # <<>> /\ price > SeqMax(res),
                 Adj(-20, "resistance broken",
                     "resistance level broken - rise may continue"))
         \o When(/\ Len(sup) >= 2 /\ Len(res) >= 2
                 /\ (SeqMax(res) - SeqMin(sup)) * 100 < 2 * price,
                 Adj(10, "price squeeze", "price squeeze - severe move possible"))
    IN  IF ~k.ok \/ ~a.price.ok THEN ScorerFault
        ELSE IF price <= 0
             THEN [score |-> 100, factors |-> <<"invalid price">>, warnings |-> <<>>]
        ELSE Scored(items)

(***************************************************************************)
(* RiskManager._assess_risk_reward.  entry_exit.kind is "empty" for {},    *)
(* "null" when the keys hold None (the comparison rr_ratio <= 0 raises     *)
(* TypeError) and "set" when they hold numbers.                            *)
(***************************************************************************)
AssessRiskReward_MildPenalty(a) ==
    LET e == a.entry_exit
        rr == e.risk_reward_ratio
        atr == a.volatility.atr_value
        stop_distance == Abs(e.entry - e.stop_loss)
        base == IF rr <= 0 THEN 100 ELSE 50
        items ==
            (IF rr <= 0 THEN <<Adj(0, "invalid R/R", "risk/reward ratio not computed")>>
             ELSE IF rr >= 300 THEN <<Adj(-20, "excellent R/R", "")>>
             ELSE IF rr >= 200 THEN <<Adj(-15, "good R/R", "")>>
             ELSE IF rr >= 150 THEN <<Adj(-10, "acceptable R/R", "")>>
             ELSE IF rr >= 100 THEN <<Adj(5, "poor R/R", "risk/reward ratio is poor")>>
             ELSE <<Adj(10, "very poor R/R",
                        "risk/reward ratio very poor - trade not recommended")>>)
         \o (IF atr > 0 /\ e.entry > 0 /\ e.stop_loss > 0
             THEN IF stop_distance < atr
                  THEN <<Adj(15, "very small stop",
                             "stop-loss very close - likely to be hit")>>
                  ELSE IF stop_distance > 3 * atr
                  THEN <<Adj(10, "very large stop", "stop-loss very far - high risk")>>
                  ELSE IF 2 * stop_distance >= 3 * atr /\ 2 * stop_distance <= 5 * atr
                  THEN <<Adj(-5, "ideal stop", "")>>
                  ELSE <<>>
             ELSE <<>>)
         \o When(/\ e.take_profit_1 > 0 /\ e.take_profit_2 > 0 /\ e.entry > 0
                 /\ Abs(e.take_profit_2 - e.take_profit_1) * 100 > 5 * e.entry,
                 Adj(5, "targets far apart", ""))
    IN  IF e.kind = "null" \/ ~a.technical.ok \/ ~a.volatility.ok THEN ScorerFault
        ELSE ScoredFrom(base, items)

AssessRiskReward(a) ==
    LET e == a.entry_exit
        rr == e.risk_reward_ratio
        atr == a.volatility.atr_value
        stop_distance == Abs(e.entry - e.stop_loss)
        base == IF rr <= 0 THEN 100 ELSE 50
        items ==
            (IF rr <= 0 THEN <<Adj(0, "invalid R/R", "risk/reward ratio not computed")>>
             ELSE IF rr >= 300 THEN <<Adj(-20, "excellent R/R", "")>>
             ELSE IF rr >= 200 THEN <<Adj(-15, "good R/R", "")>>
             ELSE IF rr >= 150 THEN <<Adj(-10, "acceptable R/R", "")>>
             ELSE IF rr >= 100 THEN <<Adj(5, "poor R/R", "risk/reward ratio is poor")>>
             ELSE <<Adj(20, "very poor R/R",
                        "risk/reward ratio very poor - trade not recommended")>>)
         \o (IF atr > 0 /\ e.entry > 0 /\ e.stop_loss > 0
             THEN IF stop_distance < atr
                  THEN <<Adj(15, "very small stop",
                             "stop-loss very close - likely to be hit")>>
                  ELSE IF stop_distance > 3 * atr
                  THEN <<Adj(10, "very large stop", "stop-loss very far - high risk")>>
                  ELSE IF 2 * stop_distance >= 3 * atr /\ 2 * stop_distance <= 5 * atr
                  THEN <<Adj(-5, "ideal stop", "")>>
                  ELSE <<>>
             ELSE <<>>)
         \o When(/\ e.take_profit_1 > 0 /\ e.take_profit_2 > 0 /\ e.entry > 0
                 /\ Abs(e.take_profit_2 - e.take_profit_1) * 100 > 5 * e.entry,
                 Adj(5, "targets far apart", ""))
    IN  IF e.kind = "null" \/ ~a.technical.ok \/ ~a.volatility.ok THEN ScorerFault
        ELSE ScoredFrom(base, items)

(***************************************************************************)
(* RiskManager._assess_volume_risk                                         *)
(***************************************************************************)
AssessVolumeRisk(a) ==
    LET v == a.volume
        items ==
            (IF v.ratio > 300 THEN <<Adj(-10, "very high volume", "")>>
             ELSE IF v.ratio > 200 THEN <<Adj(-5, "high volume", "")>>
             ELSE IF v.ratio < 30
                  THEN <<Adj(20, "very low volume",
                             "trading volume very low - move not confirmed")>>
             ELSE IF v.ratio < 50 THEN <<Adj(10, "low volume", "trading volume low")>>
             ELSE <<>>)
         \o (IF Has("BULLISH", v.obv_trend)
             THEN <<Adj(-5, "bullish volume confirmation", "")>>
             ELSE IF Has("BEARISH", v.obv_trend)
                  THEN <<Adj(5, "bearish volume confirmation", "")>>
             ELSE <<>>)
         \o (IF v.mfi_signal = "OVERBOUGHT"
             THEN <<Adj(10, "MFI overbought", "money flow index saturated (overbought)")>>
             ELSE IF v.mfi_signal = "OVERSOLD" THEN <<Adj(-10, "MFI oversold", "")>>
             ELSE <<>>)
         \o (IF v.confirmation = "BEARISH_CONFIRMATION"
             THEN <<Adj(10, "bearish volume confirmation", "")>>
             ELSE IF v.confirmation = "BULLISH_CONFIRMATION"
                  THEN <<Adj(-10, "bullish volume confirmation", "")>>
             ELSE <<>>)
    IN  IF ~v.ok \/ ~a.technical.ok THEN ScorerFault ELSE Scored(items)

\* RiskManager._calculate_historical_volatility: the constant 5.0, in tenths
HistoricalVolatility_FromHistory == 50 + 400 * Len(risk_history)
HistoricalVolatility == 50

(***************************************************************************)
(* RiskManager._assess_volatility_risk                                     *)
(***************************************************************************)
AssessVolatilityRisk(a) ==
    LET v == a.volatility
        \* current_vs_historical = (volatility_score * 10) / historical_volatility,
        \* compared with 1.5 and 0.7 after multiplying out
        cur == v.score * 10
        items ==
            (IF v.overall = "HIGH"
             THEN <<Adj(20, "high volatility", "market volatility high - risk increased")>>
             ELSE IF v.overall = "LOW" THEN <<Adj(-10, "low volatility", "")>>
             ELSE <<>>)
         \o (IF v.atr_percent > 200
             THEN <<Adj(20, "very high ATR", "daily volatility very high")>>
             ELSE IF v.atr_percent > 150 THEN <<Adj(10, "high ATR", "")>>
             ELSE IF v.atr_percent < 30 THEN <<Adj(-5, "low ATR", "")>>
             ELSE <<>>)
         \o When(v.bb_squeeze,
                 Adj(15, "Bollinger squeeze", "Bollinger squeeze - severe move possible"))
         \o (IF v.bb_position = "ABOVE_UPPER"
             THEN <<Adj(10, "price above upper band",
                        "price above upper Bollinger band - possible reversal")>>
             ELSE IF v.bb_position = "BELOW_LOWER"
                  THEN <<Adj(-10, "price below lower band", "")>>
             ELSE <<>>)
         \o When(v.kc_width_percent > 300, Adj(10, "wide Keltner channel", ""))
         \o (IF HistoricalVolatility > 0
             THEN IF cur * 10 > 15 * HistoricalVolatility
                  THEN <<Adj(10, "volatility above historical average",
                             "current volatility above normal")>>
                  ELSE IF cur * 10 < 7 * HistoricalVolatility
                  THEN <<Adj(-5, "volatility below historical average", "")>>
                  ELSE <<>>
             ELSE <<>>)
    IN  IF ~v.ok \/ ~a.technical.ok THEN ScorerFault ELSE Scored(items)

(***************************************************************************)
(* round(weighted_sum, 1).  The weighted sum is a multiple of 0.025; off a *)
(* tie the nearest tenth is exact, and on a tie (x.x5) the binary          *)
(* representation error of the float sum decides the direction, e.g.       *)
(* scores 7.5,1,8,5,4.5,10,2.5 give 5.35 -> 5.4 and 6,9,7.5,9,4,5.5,5.5    *)
(* give 6.55 -> 6.5.  thousandths is the exact sum, tieUp that direction.  *)
(***************************************************************************)
RoundTenths(thousandths, tieUp) ==
    LET q == thousandths \div 100
        r == thousandths % 100
    IN  IF r < 50 THEN q
        ELSE IF r > 50 THEN q + 1
        ELSE IF tieUp THEN q + 1 ELSE q

\* weights = [0.20, 0.15, 0.10, 0.15, 0.20, 0.10, 0.10], in hundredths
Weights == <<20, 15, 10, 15, 20, 10, 10>>

(***************************************************************************)
(* RiskManager._combine_risk_scores; subs is the sequence of the seven     *)
(* sub-scorer results in the order technical, price, pattern, level,       *)
(* risk/reward, volume, volatility.                                        *)
(***************************************************************************)
RECURSIVE Concat(_)
Concat(ss) == IF ss = <<>> THEN <<>> ELSE Head(ss) \o Concat(Tail(ss))

CombineRiskScores_KeepRepeats(subs, tieUp) ==
    LET weighted_sum == SeqSum([i \in 1..7 |-> subs[i].score * Weights[i]])
    IN  [score    |-> RoundTenths(weighted_sum, tieUp),
         warnings |-> Concat([i \in 1..7 |-> subs[i].warnings]),
         factors  |-> Concat([i \in 1..7 |-> subs[i].factors])]

CombineRiskScores(subs, tieUp) ==
    LET weighted_sum == SeqSum([i \in 1..7 |-> subs[i].score * Weights[i]])
    IN  [score    |-> RoundTenths(weighted_sum, tieUp),
         warnings |-> Dedup(Concat([i \in 1..7 |-> subs[i].warnings])),
         factors  |-> Dedup(Concat([i \in 1..7 |-> subs[i].factors]))]

(***************************************************************************)
(* The critical lexicon of _generate_trade_signal and, for every warning   *)
(* text of the sub-scorers, the lexicon words that occur in it as a        *)
(* substring.                                                              *)
(***************************************************************************)
CriticalKeywords == {"contradiction", "break", "saturation", "severe", "very"}

KeywordsIn(w) ==
    CASE w \in {"conflict: uptrend but RSI overbought",
                "conflict: downtrend but RSI oversold"} -> {"contradiction", "saturation"}
      [] w \in {"conflict: divergence against the trend",
                "multiple patterns may give conflicting signals"} -> {"contradiction"}
      [] w \in {"severe price change in one day",
                "price squeeze - severe move possible",
                "Bollinger squeeze - severe move possible"} -> {"severe"}
      [] w \in {"support level broken - decline may continue",
                "resistance level broken - rise may continue"} -> {"break"}
      [] w \in {"risk/reward ratio very poor - trade not recommended",
                "stop-loss very close - likely to be hit",
                "stop-loss very far - high risk",
                "trading volume very low - move not confirmed",
                "daily volatility very high"} -> {"very"}
      [] w = "money flow index saturated (overbought)" -> {"saturation"}
      [] OTHER -> {}

IsCritical(w) == KeywordsIn(w) \cap CriticalKeywords # {}

CriticalWarnings(warnings) == SelectSeq(warnings, IsCritical)

(***************************************************************************)
(* RiskManager._generate_trade_signal                                      *)
(***************************************************************************)
GenerateTradeSignal_IgnoresCeiling(overall, a, cfg) ==
    LET primary == a.signals.primary
        confidence == a.signals.confidence
        reject == [trade_signal |-> "NO_TRADE", confidence |-> 0]
    IN  IF confidence < cfg.min_confidence THEN reject
        ELSE IF Len(CriticalWarnings(overall.warnings)) >= 2 THEN reject
        ELSE IF primary \in {"STRONG_BUY", "BUY"}
        THEN [trade_signal |-> "BUY",
              confidence |-> IF primary = "STRONG_BUY" THEN Min(95, confidence + 10)
                             ELSE confidence]
        ELSE IF primary \in {"STRONG_SELL", "SELL"}
        THEN [trade_signal |-> "SELL",
              confidence |-> IF primary = "STRONG_SELL" THEN Min(95, confidence + 10)
                             ELSE confidence]
        ELSE [trade_signal |-> "HOLD", confidence |-> confidence]

GenerateTradeSignal_ThreeWarnings(overall, a, cfg) ==
    LET primary == a.signals.primary
        confidence == a.signals.confidence
        max_score_for_trade == cfg.max_risk_score
        reject == [trade_signal |-> "NO_TRADE", confidence |-> 0]
    IN  IF overall.score > max_score_for_trade THEN reject
        ELSE IF confidence < cfg.min_confidence THEN reject
        ELSE IF Len(CriticalWarnings(overall.warnings)) >= 3 THEN reject
        ELSE IF primary \in {"STRONG_BUY", "BUY"} /\ overall.score <= max_score_for_trade
        THEN [trade_signal |-> "BUY",
              confidence |-> IF primary = "STRONG_BUY" THEN Min(95, confidence + 10)
                             ELSE confidence]
        ELSE IF primary \in {"STRONG_SELL", "SELL"} /\ overall.score <= max_score_for_trade
        THEN [trade_signal |-> "SELL",
              confidence |-> IF primary = "STRONG_SELL" THEN Min(95, confidence + 10)
                             ELSE confidence]
        ELSE [trade_signal |-> "HOLD", confidence |-> confidence]

GenerateTradeSignal_NoCap(overall, a, cfg) ==
    LET primary == a.signals.primary
        confidence == a.signals.confidence
        max_score_for_trade == cfg.max_risk_score
        reject == [trade_signal |-> "NO_TRADE", confidence |-> 0]
    IN  IF overall.score > max_score_for_trade THEN reject
        ELSE IF confidence < cfg.min_confidence THEN reject
        ELSE IF Len(CriticalWarnings(overall.warnings)) >= 2 THEN reject
        ELSE IF primary \in {"STRONG_BUY", "BUY"} /\ overall.score <= max_score_for_trade
        THEN [trade_signal |-> "BUY",
              confidence |-> IF primary = "STRONG_BUY" THEN confidence + 10
                             ELSE confidence]
        ELSE IF primary \in {"STRONG_SELL", "SELL"} /\ overall.score <= max_score_for_trade
        THEN [trade_signal |-> "SELL",
              confidence |-> IF primary = "STRONG_SELL" THEN confidence + 10
                             ELSE confidence]
        ELSE [trade_signal |-> "HOLD", confidence |-> confidence]

GenerateTradeSignal(overall, a, cfg) ==
    LET primary == a.signals.primary
        confidence == a.signals.confidence
        max_score_for_trade == cfg.max_risk_score
        reject == [trade_signal |-> "NO_TRADE", confidence |-> 0]
    IN  IF overall.score > max_score_for_trade THEN reject
        ELSE IF confidence < cfg.min_confidence THEN reject
        ELSE IF Len(CriticalWarnings(overall.warnings)) >= 2 THEN reject
        ELSE IF primary \in {"STRONG_BUY", "BUY"} /\ overall.score <= max_score_for_trade
        THEN [trade_signal |-> "BUY",
              confidence |-> IF primary = "STRONG_BUY" THEN Min(95, confidence + 10)
                             ELSE confidence]
        ELSE IF primary \in {"STRONG_SELL", "SELL"} /\ overall.score <= max_score_for_trade
        THEN [trade_signal |-> "SELL",
              confidence |-> IF primary = "STRONG_SELL" THEN Min(95, confidence + 10)
                             ELSE confidence]
        ELSE [trade_signal |-> "HOLD", confidence |-> confidence]

(***************************************************************************)
(* RiskManager._calculate_position_size, in hundredths of a percent        *)
(***************************************************************************)
CalculatePositionSize_SharedOut(overall, cfg) ==
    RoundDiv(Max(100, Min(5000, cfg.max_trade_risk * 10)), 10 * (1 + Len(risk_history)))

CalculatePositionSize_NoLimit(overall, cfg) ==
    LET score == overall.score
        tenths == IF score <= 30 THEN 15
                  ELSE IF score <= 40 THEN 12
                  ELSE IF score <= 50 THEN 10
                  ELSE IF score <= 60 THEN 7
                  ELSE IF score <= 70 THEN 5
                  ELSE 3
    IN  RoundDiv(cfg.max_trade_risk * tenths, 10)

CalculatePositionSize(overall, cfg) ==
    LET score == overall.score
        tenths == IF score <= 30 THEN 15
                  ELSE IF score <= 40 THEN 12
                  ELSE IF score <= 50 THEN 10
                  ELSE IF score <= 60 THEN 7
                  ELSE IF score <= 70 THEN 5
                  ELSE 3
        \* position_size = max(0.1, min(5.0, position_size)), in thousandths
        position_size == Max(100, Min(5000, cfg.max_trade_risk * tenths))
    IN  RoundDiv(position_size, 10)

(***************************************************************************)
(* RiskManager._get_risk_level                                             *)
(***************************************************************************)
GetRiskLevel(score) ==
    IF score <= 30 THEN "VERY_LOW"
    ELSE IF score <= 40 THEN "LOW"
    ELSE IF score <= 50 THEN "MEDIUM"
    ELSE IF score <= 60 THEN "HIGH"
    ELSE IF score <= 70 THEN "VERY_HIGH"
    ELSE "EXTREME"

(***************************************************************************)
(* RiskManager._get_recommendation (the texts, abbreviated)                *)
(***************************************************************************)
GetRiskRecommendation(score, signal) ==
    IF signal = "NO_TRADE" THEN "refrain from trading"
    ELSE CASE GetRiskLevel(score) = "VERY_LOW" -> "ideal conditions"
           [] GetRiskLevel(score) = "LOW" -> "good conditions"
           [] GetRiskLevel(score) = "MEDIUM" -> "trade with caution"
           [] GetRiskLevel(score) = "HIGH" -> "experienced traders only"
           [] GetRiskLevel(score) = "VERY_HIGH" -> "very high risk trade"
           [] OTHER -> "strongly refrain from trading"

(***************************************************************************)
(* RiskManager._get_trade_restrictions                                     *)
(***************************************************************************)
GetTradeRestrictions(score) ==
    LET base == [max_position_size_percent |-> 200, max_leverage |-> 30,
                 require_stop_loss |-> TRUE, require_take_profit |-> TRUE,
                 max_duration_days |-> 7, allow_hedging |-> FALSE,
                 require_trailing_stop |-> FALSE]
    IN  IF score >= 70
        THEN [base EXCEPT !.max_position_size_percent = 50, !.max_leverage = 10,
                          !.require_trailing_stop = TRUE, !.max_duration_days = 3]
        ELSE IF score >= 60
        THEN [base EXCEPT !.max_position_size_percent = 100, !.max_leverage = 20,
                          !.max_duration_days = 5]
        ELSE IF score <= 30
        THEN [base EXCEPT !.max_position_size_percent = 300, !.max_leverage = 50,
                          !.allow_hedging = TRUE]
        ELSE base

(***************************************************************************)
(* RiskManager._get_empty_assessment                                       *)
(***************************************************************************)
GetEmptyAssessment(now) ==
    LET blank == [score |-> 50, factors |-> <<>>, warnings |-> <<>>]
    IN  [symbol |-> "UNKNOWN", timestamp |-> now,
         technical_risk |-> blank, price_risk |-> blank, pattern_risk |-> blank,
         level_risk |-> blank, rr_risk |-> blank, volume_risk |-> blank,
         volatility_risk |-> blank,
         overall_risk |-> [score |-> 50, warnings |-> <<"error in risk assessment">>,
                           factors |-> <<>>],
         trade_signal |-> "HOLD", confidence |-> 0, position_size_percent |-> 50,
         risk_level |-> "HIGH",
         recommendation |-> "error in analysis - refrain from trading",
         warnings |-> <<"error in risk assessment">>,
         restrictions |-> [max_position_size_percent |-> 50, max_leverage |-> 10,
                           require_stop_loss |-> TRUE, require_take_profit |-> TRUE,
                           max_duration_days |-> 1, allow_hedging |-> FALSE,
                           require_trailing_stop |-> TRUE]]

(***************************************************************************)
(* RiskManager.assess_trade_risk: the record it builds in its try block    *)
(***************************************************************************)
BuildAssessment(a, cfg, tieUp, now) ==
    LET technical_risk  == AssessTechnicalRisk(a)
        price_risk      == AssessPriceRisk(a)
        pattern_risk    == AssessPatternRisk(a)
        level_risk      == AssessLevelRisk(a)
        rr_risk         == AssessRiskReward(a)
        volume_risk     == AssessVolumeRisk(a)
        volatility_risk == AssessVolatilityRisk(a)
        overall_risk    == CombineRiskScores(<<technical_risk, price_risk, pattern_risk,
                                               level_risk, rr_risk, volume_risk,
                                               volatility_risk>>, tieUp)
        decision        == GenerateTradeSignal(overall_risk, a, cfg)
    IN  [symbol |-> a.symbol, timestamp |-> now,
         technical_risk |-> technical_risk, price_risk |-> price_risk,
         pattern_risk |-> pattern_risk, level_risk |-> level_risk, rr_risk |-> rr_risk,
         volume_risk |-> volume_risk, volatility_risk |-> volatility_risk,
         overall_risk |-> overall_risk,
         trade_signal |-> decision.trade_signal, confidence |-> decision.confidence,
         position_size_percent |-> CalculatePositionSize(overall_risk, cfg),
         risk_level |-> GetRiskLevel(overall_risk.score),
         recommendation |-> GetRiskRecommendation(overall_risk.score,
                                                  decision.trade_signal),
         warnings |-> overall_risk.warnings,
         restrictions |-> GetTradeRestrictions(overall_risk.score)]

(***************************************************************************)
(* RiskManager.assess_trade_risk: its try block, and the value the method  *)
(* returns.  An argument that is not a mapping (ok = FALSE) makes          *)
(* analysis.get, or the except handler of _calculate_position_size, raise  *)
(* into the outer except.                                                  *)
(***************************************************************************)
AssessBody(a, cfg, tieUp, now) ==
    IF a.ok /\ cfg.ok THEN BuildAssessment(a, cfg, tieUp, now)
    ELSE Raised

AssessTradeRisk(a, cfg, tieUp, now) ==
    IF AssessBody(a, cfg, tieUp, now) = Raised THEN GetEmptyAssessment(now)
    ELSE AssessBody(a, cfg, tieUp, now)

(***************************************************************************)
(* Sections of an analysis as assess_trade_risk reads them.  The *Absent   *)
(* records are what the dict.get defaults give for a missing or empty      *)
(* section.                                                                *)
(***************************************************************************)
TechnicalAbsent ==
    [ok |-> TRUE, trend_strength |-> 0, trend_direction |-> "NEUTRAL",
     macd_cross |-> "NEUTRAL", rsi_signal |-> "NEUTRAL",
     rsi_divergence |-> "NO_DIVERGENCE", stoch_signal |-> "NEUTRAL",
     momentum_score |-> 50]

VolatilityAbsent ==
    [ok |-> TRUE, overall |-> "MEDIUM", score |-> 50, atr_percent |-> 0,
     atr_value |-> 0, bb_squeeze |-> FALSE, bb_position |-> "MIDDLE",
     kc_width_percent |-> 0]

VolumeAbsent ==
    [ok |-> TRUE, ratio |-> 100, obv_trend |-> "NEUTRAL", mfi_signal |-> "NEUTRAL",
     confirmation |-> "NEUTRAL"]

PriceAbsent ==
    [ok |-> TRUE, current |-> 0, daily_change_percent |-> 0, daily_range_percent |-> 0,
     position_in_range |-> 50, candle_type |-> "NORMAL"]

PatternsAbsent ==
    [ok |-> TRUE, patterns |-> <<>>, strength |-> 0, has_reversal |-> FALSE,
     has_continuation |-> FALSE]

\* the {} of _find_nearest_level, read through .get with the callers' defaults
NoLevel == [found |-> FALSE, level |-> 0, distance_percent |-> 10000,
            is_close |-> FALSE]

KeyLevelsAbsent ==
    [ok |-> TRUE, support_distance |-> 10000, resistance_distance |-> 10000,
     support_strengths |-> <<>>, resistance_strengths |-> <<>>,
     support |-> <<>>, resistance |-> <<>>,
     support_close |-> FALSE, resistance_close |-> FALSE,
     nearest_support |-> NoLevel, nearest_resistance |-> NoLevel]

EntryExitEmpty ==
    [kind |-> "empty", risk_reward_ratio |-> 0, entry |-> 0, stop_loss |-> 0,
     take_profit_1 |-> 0, take_profit_2 |-> 0, position_size_percent |-> 0]

\* the bundle _calculate_entry_exit_points returns for HOLD: every key None
EntryExitNull == [EntryExitEmpty EXCEPT !.kind = "null"]

\* the position size _calculate_entry_exit_points suggests for a ratio; a ratio
\* of 0.0 is falsy and leaves the key unset (0 here)
SuggestedPositionSize(rr) ==
    IF rr = 0 THEN 0
    ELSE IF rr >= 200 THEN 200
    ELSE IF rr >= 150 THEN 150
    ELSE 100

EntryExitSet(rr, entry, sl, tp1, tp2) ==
    [kind |-> "set", risk_reward_ratio |-> rr, entry |-> entry, stop_loss |-> sl,
     take_profit_1 |-> tp1, take_profit_2 |-> tp2,
     position_size_percent |-> SuggestedPositionSize(rr)]

SignalsAbsent == [primary |-> "HOLD", strength |-> 50, confidence |-> 50]

Pattern(direction, type, strength, complete) ==
    [direction |-> direction, type |-> type, strength |-> strength,
     complete |-> complete]

(***************************************************************************)
(* Inputs of the risk engine.  Each section ranges over a few values that  *)
(* between them take every branch of its sub-scorer.                       *)
(***************************************************************************)
TechnicalOptions ==
    { [TechnicalAbsent EXCEPT !.trend_strength = 95, !.trend_direction = "STRONG_BULLISH",
                              !.macd_cross = "BULLISH_CROSS", !.rsi_signal = "BULLISH",
                              !.stoch_signal = "BULLISH_CROSS", !.momentum_score = 100],
      [TechnicalAbsent EXCEPT !.trend_strength = 70, !.trend_direction = "BULLISH",
                              !.macd_cross = "BEARISH_CROSS", !.rsi_signal = "OVERBOUGHT",
                              !.rsi_divergence = "BEARISH_DIVERGENCE"],
      [TechnicalAbsent EXCEPT !.trend_direction = "UNKNOWN", !.rsi_signal = "OVERSOLD",
                              !.rsi_divergence = "BULLISH_DIVERGENCE",
                              !.momentum_score = 0] }

PriceOptions ==
    { [PriceAbsent EXCEPT !.current = 10000, !.daily_change_percent = 20,
                          !.daily_range_percent = 50],
      [PriceAbsent EXCEPT !.current = 10000, !.daily_change_percent = -350,
                          !.daily_range_percent = 250, !.position_in_range = 90,
                          !.candle_type = "MARUBOZU"],
      [PriceAbsent EXCEPT !.current = 10000, !.daily_change_percent = 160,
                          !.daily_range_percent = 120, !.position_in_range = 10,
                          !.candle_type = "DOJI"] }

PatternsOptions ==
    { [PatternsAbsent EXCEPT
          !.patterns = <<Pattern("BULLISH", "REVERSAL", "STRONG", TRUE)>>,
          !.strength = 80],
      [PatternsAbsent EXCEPT
          !.patterns = <<Pattern("BULLISH", "REVERSAL", "MEDIUM", TRUE),
                         Pattern("BEARISH", "REVERSAL", "MEDIUM", TRUE),
                         Pattern("NEUTRAL", "CONTINUATION", "UNRATED", FALSE)>>,
          !.strength = 50, !.has_reversal = TRUE, !.has_continuation = TRUE],
      [PatternsAbsent EXCEPT
          !.patterns = <<Pattern("NEUTRAL", "INDECISION", "WEAK", TRUE)>>,
          !.strength = 30] }

KeyLevelsOptions ==
    { [KeyLevelsAbsent EXCEPT !.support_distance = 30, !.resistance_distance = 500,
                              !.support = <<9970>>, !.resistance = <<10500>>,
                              !.support_strengths = <<8>>, !.resistance_strengths = <<4>>],
      [KeyLevelsAbsent EXCEPT !.resistance_distance = 40,
                              !.support = <<10050, 10100>>,
                              !.resistance = <<10040, 10200>>,
                              !.support_strengths = <<3, 5>>,
                              !.resistance_strengths = <<8, 9>>],
      [KeyLevelsAbsent EXCEPT !.support_distance = 80, !.resistance_distance = 90,
                              !.support = <<9920>>, !.resistance = <<9910>>] }

EntryExitOptions ==
    { EntryExitNull,
      EntryExitSet(60, 9990, 9985, 9993, 10100),
      EntryExitSet(60, 9990, 9970, 10002, 10010),
      EntryExitSet(120, 1000, 960, 1048, 1100),
      EntryExitSet(320, 9990, 9940, 10150, 10200) }

VolumeOptions ==
    { [VolumeAbsent EXCEPT !.ratio = 20, !.obv_trend = "BEARISH",
                           !.mfi_signal = "OVERBOUGHT",
                           !.confirmation = "BEARISH_CONFIRMATION"],
      [VolumeAbsent EXCEPT !.ratio = 350, !.obv_trend = "STRONG_BULLISH",
                           !.mfi_signal = "OVERSOLD",
                           !.confirmation = "BULLISH_CONFIRMATION"],
      [VolumeAbsent EXCEPT !.ratio = 40, !.obv_trend = "BULLISH"] }

VolatilityOptions ==
    { [VolatilityAbsent EXCEPT !.overall = "HIGH", !.score = 80, !.atr_percent = 250,
                               !.atr_value = 10, !.bb_squeeze = TRUE,
                               !.bb_position = "ABOVE_UPPER", !.kc_width_percent = 400],
      [VolatilityAbsent EXCEPT !.overall = "LOW", !.score = 3, !.atr_percent = 20,
                               !.atr_value = 10, !.bb_position = "BELOW_LOWER",
                               !.kc_width_percent = 100],
      [VolatilityAbsent EXCEPT !.score = 5, !.atr_percent = 160, !.atr_value = 10,
                               !.kc_width_percent = 200] }

SectionNames == {"technical", "volatility", "volume", "price", "patterns",
                 "key_levels", "entry_exit"}

\* the sections of the record _get_empty_analysis returns, as the risk engine reads them
EmptySections ==
    [ok |-> TRUE, symbol |-> "EURUSD",
     technical |-> TechnicalAbsent, volatility |-> VolatilityAbsent,
     volume |-> VolumeAbsent, price |-> PriceAbsent, patterns |-> PatternsAbsent,
     key_levels |-> KeyLevelsAbsent, entry_exit |-> EntryExitEmpty,
     signals |-> [primary |-> "HOLD", strength |-> 0, confidence |-> 0]]

\* an orderly market with every section present
QuietSections ==
    [EmptySections EXCEPT
        !.technical = [TechnicalAbsent EXCEPT !.trend_strength = 70,
                                              !.trend_direction = "BULLISH",
                                              !.macd_cross = "BULLISH",
                                              !.momentum_score = 60],
        !.volatility = [VolatilityAbsent EXCEPT !.score = 5, !.atr_percent = 80,
                                                !.atr_value = 10,
                                                !.bb_position = "UPPER_HALF",
                                                !.kc_width_percent = 150],
        !.volume = [VolumeAbsent EXCEPT !.ratio = 250],
        !.price = [PriceAbsent EXCEPT !.current = 10000, !.daily_change_percent = 40,
                                      !.daily_range_percent = 90],
        !.key_levels = [KeyLevelsAbsent EXCEPT !.support_distance = 200,
                                               !.resistance_distance = 300,
                                               !.support = <<9800>>,
                                               !.resistance = <<10300>>,
                                               !.support_strengths = <<5>>,
                                               !.resistance_strengths = <<5>>],
        !.entry_exit = EntryExitSet(160, 10000, 9980, 10032, 10060)]

Baselines == {EmptySections, QuietSections}

MaxVaried == 1

NumVaried(a, b) == Cardinality({s \in SectionNames : a[s] # b[s]})

\* the analyses that differ from a baseline in at most MaxVaried sections
VariantsOf(b) ==
    { a \in { [b EXCEPT !.technical = t, !.volatility = vo, !.volume = v, !.price = p,
                        !.patterns = pa, !.key_levels = k, !.entry_exit = e] :
                  t \in TechnicalOptions \cup {b.technical},
                  vo \in VolatilityOptions \cup {b.volatility},
                  v \in VolumeOptions \cup {b.volume},
                  p \in PriceOptions \cup {b.price},
                  pa \in PatternsOptions \cup {b.patterns},
                  k \in KeyLevelsOptions \cup {b.key_levels},
                  e \in EntryExitOptions \cup {b.entry_exit} } :
          NumVaried(a, b) <= MaxVaried }

RiskAnalyses == UNION { VariantsOf(b) : b \in Baselines }

Primaries == {"STRONG_BUY", "BUY", "HOLD", "SELL", "STRONG_SELL"}

UpstreamConfidences == {40, 55, 90, 100}

SignalsOptions ==
    [primary : Primaries, strength : {50}, confidence : UpstreamConfidences]

\* the defaults _generate_trade_signal and _calculate_position_size substitute
RiskConfigDefault ==
    [ok |-> TRUE, max_risk_score |-> 60, min_confidence |-> 60, max_trade_risk |-> 100]

RiskConfigs ==
    { RiskConfigDefault,
      [RiskConfigDefault EXCEPT !.max_risk_score = 45, !.min_confidence = 50] }

(***************************************************************************)
(* The call risk_manager.assess_trade_risk(analysis, risk_config)          *)
(***************************************************************************)
\* a result without the one field that reads the clock
SansTime(r) == [r EXCEPT !.timestamp = 0]

Assess ==
    /\ pc = "analyzed"
    /\ analysis # Raised
    /\ LET result == AssessTradeRisk(analysis, risk_config, fp_tie_up, clock)
       IN  /\ assessment' = result
           \* self.risk_history.append(result), not reached from the except branch
           /\ risk_history' =
                  IF AssessBody(analysis, risk_config, fp_tie_up, clock) # Raised
                  THEN Append(risk_history, result)
                  ELSE risk_history
           /\ observed' = observed \cup
                  {[df |-> df, risk_config |-> risk_config,
                    analysis |-> SansTime(analysis), assessment |-> SansTime(result)]}
    /\ clock' = clock + 1
    /\ pc' = "assessed"
    /\ UNCHANGED <<df, analysis, risk_config, fp_tie_up, violations, trade_journal,
                   solo, backend, connector>>

(***************************************************************************)
(* The risk engine on its own: a RiskManager fresh from __init__ is handed *)
(* one analysis and one configuration.                                     *)
(***************************************************************************)
InitRisk ==
    /\ df = NoValue
    /\ \E a \in RiskAnalyses, sg \in SignalsOptions :
           analysis = [a EXCEPT !.signals = sg]
    /\ risk_config \in RiskConfigs
    /\ fp_tie_up \in BOOLEAN
    /\ assessment = NoValue
    /\ risk_history = <<>>
    /\ violations = <<>>
    /\ trade_journal = <<>>
    /\ clock = 0
    /\ pc = "analyzed"
    /\ observed = {}
    /\ solo = NoValue
    /\ backend = NoValue
    /\ connector = NoValue

NextRisk == Assess

SpecRisk == InitRisk /\ [][NextRisk]_vars

(***************************************************************************)
(* MarketAnalyzer.  The indicator arithmetic over the bars is not          *)
(* reproduced: a bar window d carries, in d.m, the values the stages read  *)
(* off its last bars (EMA ordering, oscillator signals, the last candle,   *)
(* the detected patterns and levels), its length d.bars, and in d.faults   *)
(* the stages whose body raises on it.  analysis.score and                 *)
(* analysis.confidence are carried in tenths, so that a value int() has    *)
(* not truncated is representable.                                         *)
(***************************************************************************)
Faulted(d, stage) == stage \in d.faults

\* len(df) < 100
MinBars == 100

\* if df.empty or len(df) < 100
InsufficientData_EmptyOnly(d) == d.bars = 0
InsufficientData(d) == d.bars = 0 \/ d.bars < MinBars

(***************************************************************************)
(* MarketAnalyzer._calculate_all_indicators: when it faults its except     *)
(* branch returns the frame without the indicator columns, and every stage *)
(* takes its "column absent" path.                                         *)
(***************************************************************************)
CalculateAllIndicators(d) ==
    IF Faulted(d, "indicators") THEN [d.m EXCEPT !.has_indicators = FALSE, !.atr = 0]
    ELSE d.m

\* MarketAnalyzer._analyze_trend: trend_strength by EMA ordering
TrendStrength(direction) ==
    IF direction \in {"STRONG_BULLISH", "STRONG_BEARISH"} THEN 95
    ELSE IF direction \in {"BULLISH", "BEARISH"} THEN 70
    ELSE 0

(***************************************************************************)
(* MarketAnalyzer._analyze_trend                                           *)
(***************************************************************************)
AnalyzeTrend(d, m) ==
    IF Faulted(d, "trend")
    THEN [direction |-> "UNKNOWN", strength |-> 0, macd_cross |-> "NEUTRAL"]
    ELSE IF ~m.has_indicators
    THEN [direction |-> "NEUTRAL", strength |-> 0, macd_cross |-> "NEUTRAL"]
    ELSE [direction |-> m.trend_direction,
          strength |-> TrendStrength(m.trend_direction),
          macd_cross |-> m.macd_cross]

(***************************************************************************)
(* MarketAnalyzer._analyze_momentum: RSI, stochastic, Williams %R and CCI  *)
(* each count into total_count, only a BULL/BEAR signal moves bull_count.  *)
(***************************************************************************)
AnalyzeMomentum(d, m) ==
    LET vote(sig) == IF Has("BULLISH", sig) THEN 1
                     ELSE IF Has("BEARISH", sig) THEN -1 ELSE 0
        bull_count == vote(m.rsi_signal) + vote(m.stoch_signal)
    IN  IF Faulted(d, "momentum") \/ ~m.has_indicators
        THEN [score |-> 50, rsi_signal |-> "NEUTRAL",
              rsi_divergence |-> "NO_DIVERGENCE", stoch_signal |-> "NEUTRAL"]
        ELSE [\* int(50 + bull_count / 4 * 50)
              score |-> (200 + bull_count * 50) \div 4,
              rsi_signal |-> m.rsi_signal,
              rsi_divergence |-> m.rsi_divergence, stoch_signal |-> m.stoch_signal]

(***************************************************************************)
(* MarketAnalyzer._analyze_volatility; bb_width in thousandths             *)
(***************************************************************************)
AnalyzeVolatility(d, m) ==
    LET atr_percent == IF m.close > 0 THEN (m.atr * 10000) \div m.close ELSE 0
        atr_score == IF m.atr * 1000 > 15 * m.close THEN 8
                     ELSE IF m.atr * 100 > m.close THEN 6
                     ELSE IF m.atr * 1000 > 5 * m.close THEN 4
                     ELSE 2
        bb_score == IF m.bb_width > 20 THEN 8
                    ELSE IF m.bb_width > 10 THEN 6
                    ELSE IF m.bb_width > 5 THEN 4
                    ELSE 2
        \* sum(scores) / len(scores), in tenths
        volatility_score == (atr_score + bb_score) * 5
    IN  IF Faulted(d, "volatility") \/ ~m.has_indicators THEN VolatilityAbsent
        ELSE [ok |-> TRUE,
              overall |-> IF volatility_score >= 70 THEN "HIGH"
                          ELSE IF volatility_score >= 40 THEN "MEDIUM"
                          ELSE "LOW",
              score |-> volatility_score, atr_percent |-> atr_percent,
              atr_value |-> m.atr, bb_squeeze |-> m.bb_squeeze,
              bb_position |-> m.bb_position,
              kc_width_percent |-> m.kc_width_percent]

(***************************************************************************)
(* MarketAnalyzer._analyze_volume                                          *)
(***************************************************************************)
AnalyzeVolume(d, m) ==
    LET volume_vote == IF m.volume_ratio > 150 THEN 1
                       ELSE IF m.volume_ratio < 80 THEN -1 ELSE 0
        obv_vote == IF Has("BULLISH", m.obv_trend) THEN 1
                    ELSE IF Has("BEARISH", m.obv_trend) THEN -1 ELSE 0
        \* avg_confirmation > 0.3 and < -0.3 over the two votes
        confirmation == IF volume_vote + obv_vote > 0 THEN "BULLISH_CONFIRMATION"
                        ELSE IF volume_vote + obv_vote < 0 THEN "BEARISH_CONFIRMATION"
                        ELSE "NEUTRAL"
    IN  IF Faulted(d, "volume") \/ ~m.has_indicators THEN VolumeAbsent
        ELSE [ok |-> TRUE, ratio |-> m.volume_ratio, obv_trend |-> m.obv_trend,
              mfi_signal |-> m.mfi_signal, confirmation |-> confirmation]

(***************************************************************************)
(* MarketAnalyzer._determine_overall_trend; the sum is compared ten times  *)
(* over (volatility score in tenths).  For the scores the stages produce   *)
(* the float sum falls on the same side of every threshold as the exact    *)
(* one.                                                                    *)
(***************************************************************************)
DetermineOverallTrend(trend, momentum, volatility) ==
    LET trend_score == CASE trend.direction = "STRONG_BULLISH" -> 90
                         [] trend.direction = "BULLISH" -> 70
                         [] trend.direction = "STRONG_BEARISH" -> 10
                         [] trend.direction = "BEARISH" -> 30
                         [] OTHER -> 50
        overall_score == 5 * trend_score + 3 * momentum.score
                             + 2 * (100 - volatility.score)
    IN  IF overall_score >= 700 THEN "STRONG_BULLISH"
        ELSE IF overall_score >= 600 THEN "BULLISH"
        ELSE IF overall_score <= 300 THEN "STRONG_BEARISH"
        ELSE IF overall_score <= 400 THEN "BEARISH"
        ELSE "NEUTRAL"

(***************************************************************************)
(* MarketAnalyzer._technical_analysis: technical, with its volatility and  *)
(* volume sub-sections beside it                                           *)
(***************************************************************************)
TechnicalAnalysis(d, m) ==
    LET trend == AnalyzeTrend(d, m)
        momentum == AnalyzeMomentum(d, m)
        volatility == AnalyzeVolatility(d, m)
    IN  IF Faulted(d, "technical")
        THEN [technical |-> TechnicalAbsent,
              overall_trend |-> "NEUTRAL",
              volatility |-> VolatilityAbsent, volume |-> VolumeAbsent]
        ELSE [technical |->
                 [ok |-> TRUE, trend_strength |-> trend.strength,
                  trend_direction |-> trend.direction, macd_cross |-> trend.macd_cross,
                  rsi_signal |-> momentum.rsi_signal,
                  rsi_divergence |-> momentum.rsi_divergence,
                  stoch_signal |-> momentum.stoch_signal,
                  momentum_score |-> momentum.score],
              overall_trend |-> DetermineOverallTrend(trend, momentum, volatility),
              volatility |-> volatility, volume |-> AnalyzeVolume(d, m)]

\* MarketAnalyzer._price_analysis
PriceAnalysis(d, m) ==
    IF Faulted(d, "price") THEN PriceAbsent
    ELSE [m.candle EXCEPT !.ok = TRUE, !.current = m.close]

(***************************************************************************)
(* MarketAnalyzer._pattern_analysis; strength is the mean strength_score,  *)
(* in tenths (exact in what the readers of it compute for up to three      *)
(* patterns).  The try block of _detect_harmonic_patterns holds comments   *)
(* only; it is read as the empty body they describe, a detector that       *)
(* finds nothing.                                                          *)
(***************************************************************************)
PatternAnalysis(d, m) ==
    LET patterns == m.patterns
        n == Len(patterns)
        strength_sum == SeqSum([i \in 1..n |-> patterns[i].strength_score])
    IN  IF Faulted(d, "patterns") THEN [PatternsAbsent EXCEPT !.strength = 0]
        ELSE [ok |-> TRUE, patterns |-> patterns,
              strength |-> IF n = 0 THEN 0 ELSE (strength_sum * 10) \div n,
              has_reversal |-> \E i \in 1..n : patterns[i].type = "REVERSAL",
              has_continuation |-> \E i \in 1..n : patterns[i].type = "CONTINUATION"]

(***************************************************************************)
(* MarketAnalyzer._find_nearest_level; side is "above" or "below".         *)
(* distance_percent in hundredths; found = FALSE stands for {}.            *)
(***************************************************************************)
FindNearestLevel(current_price, levels, side) ==
    LET eligible == IF side = "above"
                    THEN SelectSeq(levels, LAMBDA l : l > current_price)
                    ELSE SelectSeq(levels, LAMBDA l : l < current_price)
        \* above: min(eligible, key=distance), the lowest level above the price;
        \* below: max(eligible, key=distance), the level farthest below the price
        nearest == SeqMin(eligible)
        distance == Abs(nearest - current_price)
        distance_percent == IF current_price > 0
                            THEN (distance * 10000) \div current_price ELSE 0
    IN  IF levels = <<>> \/ eligible = <<>>
        THEN NoLevel
        ELSE [found |-> TRUE, level |-> nearest, distance_percent |-> distance_percent,
              is_close |-> distance_percent < 50]

(***************************************************************************)
(* MarketAnalyzer._identify_key_levels                                     *)
(***************************************************************************)
IdentifyKeyLevels(d, m) ==
    LET nearest_support == FindNearestLevel(m.close, m.support, "below")
        nearest_resistance == FindNearestLevel(m.close, m.resistance, "above")
    IN  IF Faulted(d, "key_levels")
        THEN KeyLevelsAbsent
        ELSE [ok |-> TRUE,
              support_distance |-> nearest_support.distance_percent,
              resistance_distance |-> nearest_resistance.distance_percent,
              support_strengths |-> m.support_strengths,
              resistance_strengths |-> m.resistance_strengths,
              support |-> m.support, resistance |-> m.resistance,
              support_close |-> nearest_support.is_close,
              resistance_close |-> nearest_resistance.is_close,
              nearest_support |-> nearest_support,
              nearest_resistance |-> nearest_resistance]

(***************************************************************************)
(* MarketAnalyzer._calculate_confidence                                    *)
(***************************************************************************)
CalculateConfidence(d, score, reason_count, trend_strength, pattern_count) ==
    LET confidence == 50
            + (IF score >= 70 \/ score <= 30 THEN 20
               ELSE IF score >= 60 \/ score <= 40 THEN 10 ELSE 0)
            + (IF reason_count >= 3 THEN 10 ELSE 0)
            + (IF trend_strength >= 70 THEN 10 ELSE 0)
            + (IF pattern_count >= 2 THEN 5 ELSE 0)
    IN  IF Faulted(d, "confidence") THEN 50
        ELSE Max(0, Min(100, confidence))

\* except branch of _generate_signals, and the signals of the empty analysis
SignalsFault ==
    [primary |-> "HOLD", strength |-> 0, reasons |-> <<"error in analysis">>,
     risk_level |-> "HIGH", timeframe |-> "MEDIUM_TERM", confidence |-> 0]

(***************************************************************************)
(* MarketAnalyzer._generate_signals; t is the result of TechnicalAnalysis  *)
(***************************************************************************)
\* the score adjustments of _generate_signals with their reasons, in code order
SignalItems(t, pattern_analysis, key_levels) ==
    LET overall_trend == t.overall_trend
        momentum_score == t.technical.momentum_score
        trend_strength == t.technical.trend_strength
        patterns == pattern_analysis.patterns
        pattern_directions == {patterns[i].direction :
                                  i \in {j \in 1..Len(patterns) :
                                            patterns[j].type = "REVERSAL"}}
    IN  (CASE overall_trend = "STRONG_BULLISH" -> <<Adj(20, "strong uptrend", "")>>
           [] overall_trend = "BULLISH" -> <<Adj(10, "uptrend", "")>>
           [] overall_trend = "STRONG_BEARISH" -> <<Adj(-20, "strong downtrend", "")>>
           [] overall_trend = "BEARISH" -> <<Adj(-10, "downtrend", "")>>
           [] OTHER -> <<>>)
     \o (IF momentum_score > 70 THEN <<Adj(12, "strong bullish momentum", "")>>
         ELSE IF momentum_score > 60 THEN <<Adj(6, "bullish momentum", "")>>
         ELSE IF momentum_score < 30 THEN <<Adj(-12, "strong bearish momentum", "")>>
         ELSE IF momentum_score < 40 THEN <<Adj(-6, "bearish momentum", "")>>
         ELSE <<>>)
     \o (IF pattern_analysis.has_reversal
         THEN IF "BULLISH" \in pattern_directions
              THEN <<Adj(8, "bullish reversal pattern", "")>>
              ELSE IF "BEARISH" \in pattern_directions
              THEN <<Adj(-8, "bearish reversal pattern", "")>>
              ELSE <<>>
         ELSE <<>>)
     \o When(pattern_analysis.has_continuation /\ trend_strength > 50,
             Adj(4, "continuation pattern", ""))
     \o When(key_levels.support_close, Adj(6, "near support", ""))
     \o When(key_levels.resistance_close, Adj(-6, "near resistance", ""))

\* the composite score after "score = max(0, min(100, score))"
SignalScore(t, pattern_analysis, key_levels) ==
    Max(0, Min(100, 50 + SeqSum(Deltas(SignalItems(t, pattern_analysis, key_levels)))))

GenerateSignals_BuyFrom60(d, t, price_analysis, pattern_analysis, key_levels) ==
    LET trend_strength == t.technical.trend_strength
        reasons == Texts(SignalItems(t, pattern_analysis, key_levels), "f")
        score == SignalScore(t, pattern_analysis, key_levels)
        primary == IF score >= 75 THEN "STRONG_BUY"
                   ELSE IF score >= 60 THEN "BUY"
                   ELSE IF score <= 25 THEN "STRONG_SELL"
                   ELSE IF score <= 35 THEN "SELL"
                   ELSE "HOLD"
    IN  IF Faulted(d, "signals") THEN SignalsFault
        ELSE [primary |-> primary,
              strength |-> IF score >= 60 THEN score
                           ELSE IF score <= 35 THEN 100 - score ELSE 0,
              reasons |-> reasons,
              risk_level |-> IF primary \in {"STRONG_BUY", "STRONG_SELL"} THEN "LOW"
                             ELSE "MEDIUM",
              timeframe |-> IF trend_strength > 80 THEN "LONG_TERM"
                            ELSE IF trend_strength > 50 THEN "MEDIUM_TERM"
                            ELSE "SHORT_TERM",
              confidence |-> CalculateConfidence(d, score, Len(reasons), trend_strength,
                                                 Len(pattern_analysis.patterns))]

GenerateSignals(d, t, price_analysis, pattern_analysis, key_levels) ==
    LET trend_strength == t.technical.trend_strength
        reasons == Texts(SignalItems(t, pattern_analysis, key_levels), "f")
        score == SignalScore(t, pattern_analysis, key_levels)
        primary == IF score >= 75 THEN "STRONG_BUY"
                   ELSE IF score >= 65 THEN "BUY"
                   ELSE IF score <= 25 THEN "STRONG_SELL"
                   ELSE IF score <= 35 THEN "SELL"
                   ELSE "HOLD"
    IN  IF Faulted(d, "signals") THEN SignalsFault
        ELSE [primary |-> primary,
              strength |-> IF score >= 65 THEN score
                           ELSE IF score <= 35 THEN 100 - score ELSE 0,
              reasons |-> reasons,
              risk_level |-> IF primary \in {"STRONG_BUY", "STRONG_SELL"} THEN "LOW"
                             ELSE "MEDIUM",
              timeframe |-> IF trend_strength > 80 THEN "LONG_TERM"
                            ELSE IF trend_strength > 50 THEN "MEDIUM_TERM"
                            ELSE "SHORT_TERM",
              confidence |-> CalculateConfidence(d, score, Len(reasons), trend_strength,
                                                 Len(pattern_analysis.patterns))]

\* int(x) for x >= 0 in tenths: the fraction is dropped
IntOf_Untruncated(tenths) == tenths
IntOf(tenths) == (tenths \div 10) * 10

(***************************************************************************)
(* MarketAnalyzer._calculate_score_and_confidence, both results in tenths. *)
(* score * 0.7 + trend_strength * 0.3 is exact in floating point up to the *)
(* truncation except for strength 90 with trend strength 0, where          *)
(* 90 * 0.7 = 62.99999999999999 and int() gives 62.                        *)
(***************************************************************************)
CalculateScoreAndConfidence(d, t, pattern_analysis, signals) ==
    LET score == signals.strength
        confidence == signals.confidence
        trend_strength == t.technical.trend_strength
        pattern_strength == pattern_analysis.strength
        raw_score == IF score = 90 /\ trend_strength = 0 THEN 629
                     ELSE 7 * score + 3 * trend_strength
        final_score == IntOf(raw_score)
        final_confidence == IntOf(6 * confidence + 4 * pattern_strength)
    IN  IF Faulted(d, "score") THEN [score |-> 500, confidence |-> 500]
        ELSE [score |-> Max(0, Min(1000, final_score)),
              confidence |-> Max(0, Min(1000, final_confidence))]

(***************************************************************************)
(* MarketAnalyzer._calculate_buy_points.  Prices are integer points (the   *)
(* fifth decimal round(x, 5) keeps); the unrounded intermediate prices are *)
(* carried exactly in 1/100000 of a point.  ok = FALSE stands for the {}   *)
(* of the except branch, reached when max() or min() gets an empty list.   *)
(***************************************************************************)
NoPoints == [ok |-> FALSE, entry |-> 0, stop_loss |-> 0, take_profit_1 |-> 0,
             take_profit_2 |-> 0]

CalculateBuyPoints(current_price, support_levels, resistance_levels, atr) ==
    LET below == SelectSeq(support_levels, LAMBDA l : l < current_price)
        entry_price == IF support_levels # <<>> THEN SeqMax(below) * 100100
                       ELSE current_price * 99800
        level_stop == IF support_levels # <<>> THEN SeqMin(support_levels) * 99500
                      ELSE (entry_price \div 100) * 99
        stop_loss == IF atr > 0 THEN Max(level_stop, entry_price - atr * 200000)
                     ELSE level_stop
        risk == entry_price - stop_loss
        above == SelectSeq(resistance_levels, LAMBDA l : l * 100000 > entry_price)
        take_profit_1 == IF resistance_levels # <<>> THEN SeqMin(above) * 99900
                         ELSE entry_price + (risk * 3) \div 2
        next_resistance == SelectSeq(resistance_levels,
                                     LAMBDA l : l * 100000 > take_profit_1)
        take_profit_2 == IF Len(resistance_levels) > 1 /\ next_resistance # <<>>
                         THEN SeqMin(next_resistance) * 99900
                         ELSE entry_price + (risk * 5) \div 2
    IN  IF \/ support_levels # <<>> /\ below = <<>>
           \/ resistance_levels # <<>> /\ above = <<>>
        THEN NoPoints
        ELSE [ok |-> TRUE,
              entry |-> RoundDiv(entry_price, 100000),
              stop_loss |-> RoundDiv(stop_loss, 100000),
              take_profit_1 |-> RoundDiv(take_profit_1, 100000),
              take_profit_2 |-> RoundDiv(take_profit_2, 100000)]

(***************************************************************************)
(* MarketAnalyzer._calculate_sell_points                                   *)
(***************************************************************************)
CalculateSellPoints(current_price, support_levels, resistance_levels, atr) ==
    LET above == SelectSeq(resistance_levels, LAMBDA l : l > current_price)
        entry_price == IF resistance_levels # <<>> THEN SeqMin(above) * 99900
                       ELSE current_price * 100200
        level_stop == IF resistance_levels # <<>>
                      THEN SeqMax(resistance_levels) * 100500
                      ELSE (entry_price \div 100) * 101
        stop_loss == IF atr > 0 THEN Min(level_stop, entry_price + atr * 200000)
                     ELSE level_stop
        risk == stop_loss - entry_price
        below == SelectSeq(support_levels, LAMBDA l : l * 100000 < entry_price)
        take_profit_1 == IF support_levels # <<>> THEN SeqMax(below) * 100100
                         ELSE entry_price - (risk * 3) \div 2
        next_support == SelectSeq(support_levels,
                                  LAMBDA l : l * 100000 < take_profit_1)
        take_profit_2 == IF Len(support_levels) > 1 /\ next_support # <<>>
                         THEN SeqMax(next_support) * 100100
                         ELSE entry_price - (risk * 5) \div 2
    IN  IF \/ resistance_levels # <<>> /\ above = <<>>
           \/ support_levels # <<>> /\ below = <<>>
        THEN NoPoints
        ELSE [ok |-> TRUE,
              entry |-> RoundDiv(entry_price, 100000),
              stop_loss |-> RoundDiv(stop_loss, 100000),
              take_profit_1 |-> RoundDiv(take_profit_1, 100000),
              take_profit_2 |-> RoundDiv(take_profit_2, 100000)]

(***************************************************************************)
(* MarketAnalyzer._calculate_entry_exit_points.  The dict of the buy/sell  *)
(* helper has no 'risk_reward_ratio' key: unless the ratio is computed the *)
(* read of it raises KeyError and the bundle is {}; the same happens on    *)
(* the {} of a helper that faulted.                                        *)
(***************************************************************************)
CalculateEntryExitPoints_AnySignal(d, m, signals, key_levels) ==
    LET signal == signals.primary
        points == IF signal \in {"STRONG_BUY", "BUY"}
                  THEN CalculateBuyPoints(m.close, key_levels.support,
                                          key_levels.resistance, m.atr)
                  ELSE CalculateSellPoints(m.close, key_levels.support,
                                           key_levels.resistance, m.atr)
        risk == Abs(points.entry - points.stop_loss)
        reward == Abs(points.take_profit_1 - points.entry)
    IN  IF Faulted(d, "entry_exit") THEN EntryExitEmpty
        ELSE IF Faulted(d, "points") \/ ~points.ok THEN EntryExitEmpty
        ELSE IF points.entry # 0 /\ points.stop_loss # 0 /\ points.take_profit_1 # 0
                /\ risk > 0
        THEN EntryExitSet(RoundDiv(reward * 100, risk), points.entry, points.stop_loss,
                          points.take_profit_1, points.take_profit_2)
        ELSE EntryExitEmpty

CalculateEntryExitPoints(d, m, signals, key_levels) ==
    LET signal == signals.primary
        points == IF signal \in {"STRONG_BUY", "BUY"}
                  THEN CalculateBuyPoints(m.close, key_levels.support,
                                          key_levels.resistance, m.atr)
                  ELSE CalculateSellPoints(m.close, key_levels.support,
                                           key_levels.resistance, m.atr)
        risk == Abs(points.entry - points.stop_loss)
        reward == Abs(points.take_profit_1 - points.entry)
    IN  \* up to the return for a signal without direction nothing can raise on a
        \* frame that has its 'close' column
        IF signal \notin {"STRONG_BUY", "BUY", "STRONG_SELL", "SELL"}
        THEN EntryExitNull
        ELSE IF Faulted(d, "entry_exit") THEN EntryExitEmpty
        ELSE IF Faulted(d, "points") \/ ~points.ok THEN EntryExitEmpty
        ELSE IF points.entry # 0 /\ points.stop_loss # 0 /\ points.take_profit_1 # 0
                /\ risk > 0
        THEN EntryExitSet(RoundDiv(reward * 100, risk), points.entry, points.stop_loss,
                          points.take_profit_1, points.take_profit_2)
        ELSE EntryExitEmpty

(***************************************************************************)
(* MarketAnalyzer._risk_analysis and _calculate_max_position_size          *)
(***************************************************************************)
RiskAnalysis(d, m) ==
    LET risk_score == 50
            + (IF m.has_indicators /\ m.atr * 1000 > 15 * m.close THEN 20 ELSE 0)
            + (IF m.has_indicators /\ m.adx < 20 THEN 10 ELSE 0)
            + (IF m.has_indicators /\ m.volume_ratio < 50 THEN 10 ELSE 0)
        score == Max(10, Min(100, risk_score))
    IN  IF Faulted(d, "risk")
        THEN [score |-> 50, level |-> "MEDIUM", max_position_size_percent |-> 100]
        ELSE [score |-> score,
              level |-> IF score >= 80 THEN "VERY_HIGH"
                        ELSE IF score >= 70 THEN "HIGH"
                        ELSE IF score >= 50 THEN "MEDIUM"
                        ELSE IF score >= 30 THEN "LOW"
                        ELSE "VERY_LOW",
              max_position_size_percent |->
                  IF score >= 80 THEN 50
                  ELSE IF score >= 70 THEN 100
                  ELSE IF score >= 50 THEN 150
                  ELSE IF score >= 30 THEN 200
                  ELSE 250]

\* except branch of _get_recommendation, and the recommendation of the empty analysis
RecommendationFault ==
    [action |-> "WAIT", confidence |-> 0, risk_level |-> "HIGH", timeframe |-> "UNKNOWN"]

(***************************************************************************)
(* MarketAnalyzer._get_recommendation; confidence in tenths                *)
(***************************************************************************)
GetRecommendation(d, signals, score, confidence) ==
    IF Faulted(d, "recommendation") THEN RecommendationFault
    ELSE IF signals.primary \in {"STRONG_BUY", "BUY"}
    THEN [action |-> "BUY", confidence |-> confidence,
          risk_level |-> signals.risk_level, timeframe |-> signals.timeframe]
    ELSE IF signals.primary \in {"STRONG_SELL", "SELL"}
    THEN [action |-> "SELL", confidence |-> confidence,
          risk_level |-> signals.risk_level, timeframe |-> signals.timeframe]
    ELSE [action |-> "WAIT", confidence |-> confidence,
          risk_level |-> IF confidence < 300 THEN "HIGH" ELSE "MEDIUM",
          timeframe |-> "SHORT_TERM"]

\* MarketAnalyzer._time_analysis: the session of the last bar
TimeAnalysis(d, m) == IF Faulted(d, "time") THEN "none" ELSE m.session

\* MarketAnalyzer._generate_summary: the values the text is formatted from
GenerateSummary(d, signals, score, confidence) ==
    IF Faulted(d, "summary")
    THEN [signal |-> "error", score |-> 0, confidence |-> 0, risk_level |-> "none"]
    ELSE [signal |-> signals.primary,
          score |-> IF signals.primary \in {"STRONG_SELL", "SELL"} THEN 1000 - score
                    ELSE score,
          confidence |-> confidence, risk_level |-> signals.risk_level]

(***************************************************************************)
(* MarketAnalyzer._get_empty_analysis                                      *)
(***************************************************************************)
GetEmptyAnalysis(symbol, timeframe, now) ==
    [ok |-> TRUE, symbol |-> symbol, timeframe |-> timeframe, timestamp |-> now,
     current_price |-> 0,
     technical |-> TechnicalAbsent, overall_trend |-> "NEUTRAL",
     volatility |-> VolatilityAbsent, volume |-> VolumeAbsent,
     price |-> PriceAbsent, patterns |-> PatternsAbsent, time |-> "none",
     key_levels |-> KeyLevelsAbsent,
     signals |-> SignalsFault,
     score |-> 0, confidence |-> 0,
     entry_exit |-> EntryExitEmpty,
     risk |-> [score |-> 100, level |-> "VERY_HIGH", max_position_size_percent |-> 0],
     summary |-> [signal |-> "none", score |-> 0, confidence |-> 0,
                  risk_level |-> "none"],
     recommendation |-> RecommendationFault]

(***************************************************************************)
(* MarketAnalyzer.analyze_symbol: its try block.  d.ok = FALSE is an       *)
(* argument that is no DataFrame (df.empty raises); without a 'close'      *)
(* column the read of the last close for current_price raises.             *)
(***************************************************************************)
AnalyzeBody(d, now) ==
    LET m == CalculateAllIndicators(d)
        t == TechnicalAnalysis(d, m)
        price_analysis == PriceAnalysis(d, m)
        pattern_analysis == PatternAnalysis(d, m)
        key_levels == IdentifyKeyLevels(d, m)
        signals == GenerateSignals(d, t, price_analysis, pattern_analysis, key_levels)
        sc == CalculateScoreAndConfidence(d, t, pattern_analysis, signals)
    IN  IF ~d.ok THEN Raised
        ELSE IF InsufficientData(d) THEN GetEmptyAnalysis(d.symbol, d.timeframe, now)
        ELSE IF ~d.has_close THEN Raised
        ELSE [ok |-> TRUE, symbol |-> d.symbol, timeframe |-> d.timeframe,
              timestamp |-> now, current_price |-> m.close,
              technical |-> t.technical, overall_trend |-> t.overall_trend,
              volatility |-> t.volatility, volume |-> t.volume,
              price |-> price_analysis, patterns |-> pattern_analysis,
              time |-> TimeAnalysis(d, m), key_levels |-> key_levels,
              signals |-> signals, score |-> sc.score, confidence |-> sc.confidence,
              entry_exit |-> CalculateEntryExitPoints(d, m, signals, key_levels),
              risk |-> RiskAnalysis(d, m),
              summary |-> GenerateSummary(d, signals, sc.score, sc.confidence),
              recommendation |-> GetRecommendation(d, signals, sc.score, sc.confidence)]

\* analyze_symbol: the try block with its except branch
AnalyzeSymbol_NoHandler(d, now) == AnalyzeBody(d, now)
AnalyzeSymbol(d, now) ==
    IF AnalyzeBody(d, now) = Raised THEN GetEmptyAnalysis(d.symbol, d.timeframe, now)
    ELSE AnalyzeBody(d, now)

(***************************************************************************)
(* Bar windows.  The patterns are the dicts the detectors append; levels   *)
(* are sorted ascending as _find_support_levels and                        *)
(* _find_resistance_levels leave them; every close is 10000 points.  The   *)
(* levels are chosen so that no product with 0.995, 0.999, 1.001 or 1.005  *)
(* falls half-way between two points, where round(x, 5) would follow the   *)
(* binary representation.                                                  *)
(***************************************************************************)
Detected(direction, type, strength, strength_score) ==
    [direction |-> direction, type |-> type, strength |-> strength, complete |-> TRUE,
     strength_score |-> strength_score]

BULLISH_ENGULFING == Detected("BULLISH", "REVERSAL", "STRONG", 8)
HANGING_MAN == Detected("BEARISH", "REVERSAL", "MEDIUM", 6)
DOJI == Detected("NEUTRAL", "INDECISION", "WEAK", 3)
EVENING_STAR == Detected("BEARISH", "REVERSAL", "STRONG", 9)
DOUBLE_TOP == Detected("BEARISH", "REVERSAL", "MEDIUM", 7)
ASCENDING_TRIANGLE == Detected("BULLISH", "CONTINUATION", "MEDIUM", 6)

\* a flat market: nothing detected, no levels
MarketFlat ==
    [close |-> 10000, atr |-> 0, adx |-> 25, has_indicators |-> TRUE,
     trend_direction |-> "NEUTRAL", macd_cross |-> "NEUTRAL",
     rsi_signal |-> "NEUTRAL", rsi_divergence |-> "NO_DIVERGENCE",
     stoch_signal |-> "NEUTRAL", bb_width |-> 3, bb_position |-> "MIDDLE",
     bb_squeeze |-> FALSE, kc_width_percent |-> 100, volume_ratio |-> 100,
     obv_trend |-> "NEUTRAL", mfi_signal |-> "NEUTRAL",
     candle |-> [PriceAbsent EXCEPT !.daily_range_percent = 30],
     patterns |-> <<>>, support |-> <<>>, resistance |-> <<>>,
     support_strengths |-> <<>>, resistance_strengths |-> <<>>,
     session |-> "asian"]

MarketRally ==
    [MarketFlat EXCEPT
        !.atr = 40, !.adx = 35, !.trend_direction = "STRONG_BULLISH",
        !.macd_cross = "BULLISH_CROSS", !.rsi_signal = "BULLISH",
        !.stoch_signal = "BULLISH_CROSS", !.bb_width = 8,
        !.bb_position = "UPPER_HALF", !.kc_width_percent = 150,
        !.volume_ratio = 180, !.obv_trend = "BULLISH",
        !.candle = [PriceAbsent EXCEPT !.daily_change_percent = 60,
                                       !.daily_range_percent = 110,
                                       !.position_in_range = 80],
        !.patterns = <<BULLISH_ENGULFING>>,
        !.support = <<9890, 9970>>, !.resistance = <<10080, 10200>>,
        !.support_strengths = <<5, 7>>, !.resistance_strengths = <<6, 4>>,
        !.session = "london"]

MarketSlide ==
    [MarketFlat EXCEPT
        !.atr = 160, !.adx = 15, !.trend_direction = "STRONG_BEARISH",
        !.macd_cross = "BEARISH_CROSS", !.rsi_signal = "BEARISH",
        !.rsi_divergence = "BEARISH_DIVERGENCE", !.stoch_signal = "BEARISH_CROSS",
        !.bb_width = 25, !.bb_position = "BELOW_LOWER", !.kc_width_percent = 400,
        !.volume_ratio = 40, !.obv_trend = "BEARISH", !.mfi_signal = "OVERSOLD",
        !.candle = [PriceAbsent EXCEPT !.daily_change_percent = -350,
                                       !.daily_range_percent = 420,
                                       !.position_in_range = 5,
                                       !.candle_type = "MARUBOZU"],
        !.patterns = <<EVENING_STAR, DOUBLE_TOP>>,
        !.support = <<9710, 9950>>, !.resistance = <<10030, 10310>>,
        !.support_strengths = <<4, 6>>, !.resistance_strengths = <<8, 5>>,
        !.session = "newyork"]

MarketRange ==
    [MarketFlat EXCEPT
        !.atr = 55, !.adx = 18, !.rsi_signal = "OVERBOUGHT", !.bb_width = 6,
        !.bb_squeeze = TRUE, !.volume_ratio = 70,
        !.candle = [PriceAbsent EXCEPT !.daily_change_percent = 5,
                                       !.daily_range_percent = 40,
                                       !.candle_type = "DOJI"],
        !.patterns = <<DOJI>>,
        !.support = <<9960>>, !.resistance = <<10045>>,
        !.support_strengths = <<9>>, !.resistance_strengths = <<9>>]

MarketDrift ==
    [MarketFlat EXCEPT
        !.atr = 60, !.adx = 28, !.trend_direction = "BULLISH",
        !.macd_cross = "BULLISH", !.rsi_signal = "BULLISH", !.bb_width = 12,
        !.bb_position = "UPPER_HALF", !.kc_width_percent = 200,
        !.volume_ratio = 160, !.obv_trend = "STRONG_BULLISH",
        !.candle = [PriceAbsent EXCEPT !.daily_change_percent = 160,
                                       !.daily_range_percent = 180,
                                       !.position_in_range = 90],
        !.patterns = <<ASCENDING_TRIANGLE, DOJI>>,
        !.resistance = <<10100>>, !.resistance_strengths = <<6>>,
        !.session = "london"]

\* a decline whose only resistance level lies below the price
MarketTrap ==
    [MarketFlat EXCEPT
        !.atr = 45, !.adx = 22, !.trend_direction = "BEARISH",
        !.macd_cross = "BEARISH", !.rsi_signal = "BEARISH", !.bb_width = 15,
        !.bb_position = "LOWER_HALF", !.kc_width_percent = 180,
        !.volume_ratio = 90, !.obv_trend = "BEARISH",
        !.candle = [PriceAbsent EXCEPT !.daily_change_percent = -120,
                                       !.daily_range_percent = 150,
                                       !.position_in_range = 15],
        !.patterns = <<HANGING_MAN>>,
        !.support = <<9800>>, !.resistance = <<9900>>,
        !.support_strengths = <<5>>, !.resistance_strengths = <<5>>,
        !.session = "newyork"]

Markets == {MarketFlat, MarketRally, MarketSlide, MarketRange, MarketDrift, MarketTrap}

\* the stages of analyze_symbol that have an except branch of their own
Stages == {"indicators", "trend", "momentum", "volatility", "volume", "technical",
           "price", "patterns", "time", "key_levels", "signals", "confidence",
           "score", "entry_exit", "points", "risk", "summary", "recommendation"}

\* at most MaxFaults stages raise on one window
MaxFaults == 1

FaultSets == {f \in SUBSET Stages : Cardinality(f) <= MaxFaults}

BarCounts == {0, 60, 99, 100, 180}

Window(m, bars, faults) ==
    [ok |-> TRUE, symbol |-> "EURUSD", timeframe |-> "H1", bars |-> bars,
     has_close |-> TRUE, columns |-> "ohlcv", faults |-> faults, m |-> m]

\* an argument that is no DataFrame, and a frame without a 'close' column
NotAFrame == [Window(MarketFlat, 0, {}) EXCEPT !.ok = FALSE]
NoCloseColumn == [Window(MarketFlat, 180, {}) EXCEPT !.has_close = FALSE]

Windows ==
    {Window(m, bars, faults) : m \in Markets, bars \in BarCounts, faults \in FaultSets}
        \cup {NotAFrame, NoCloseColumn}

(***************************************************************************)
(* analyze_symbol works on df.copy(): _calculate_all_indicators adds its   *)
(* columns to the frame it is handed, in place.                            *)
(***************************************************************************)
DfCopy_Alias(d) == [frame |-> d, shares_data |-> TRUE]
DfCopy(d) == [frame |-> d, shares_data |-> FALSE]

\* the frame _calculate_all_indicators leaves
IndicatorFrame(d) ==
    IF Faulted(d, "indicators") THEN d ELSE [d EXCEPT !.columns = "ohlcv+indicators"]

\* the caller's frame once analyze_symbol has returned
CallerFrame(d) ==
    IF ~d.ok \/ InsufficientData(d) \/ ~DfCopy(d).shares_data THEN d
    ELSE IndicatorFrame(DfCopy(d).frame)

(***************************************************************************)
(* The call analyzer.analyze_symbol(df, symbol, timeframe)                 *)
(***************************************************************************)
Analyze ==
    /\ pc = "called"
    /\ analysis' = AnalyzeSymbol(df, clock)
    /\ df' = CallerFrame(df)
    /\ clock' = clock + 1
    /\ pc' = "analyzed"
    /\ UNCHANGED <<risk_config, fp_tie_up, assessment, risk_history, violations,
                   trade_journal, observed, solo, backend, connector>>

\* a risk configuration that is no mapping
NotAMapping == [RiskConfigDefault EXCEPT !.ok = FALSE]

(***************************************************************************)
(* One pass of the pipeline over any window: analyze_symbol, then          *)
(* assess_trade_risk on its result, as analysis_loop chains them.          *)
(***************************************************************************)
InitOnce ==
    /\ df \in Windows
    /\ analysis = NoValue
    /\ risk_config \in RiskConfigs \cup {NotAMapping}
    /\ fp_tie_up \in BOOLEAN
    /\ assessment = NoValue
    /\ risk_history = <<>>
    /\ violations = <<>>
    /\ trade_journal = <<>>
    /\ clock = 0
    /\ pc = "called"
    /\ observed = {}
    /\ solo = NoValue
    /\ backend = NoValue
    /\ connector = NoValue

NextOnce == Analyze \/ Assess

SpecOnce == InitOnce /\ [][NextOnce]_vars

(***************************************************************************)
(* The analysis loop: the same MarketAnalyzer and RiskManager are called   *)
(* again and again, each time on the window the connector delivers.        *)
(***************************************************************************)
MaxCalls == 3

LoopWindows ==
    { Window(MarketRally, 180, {}), Window(MarketSlide, 180, {}),
      Window(MarketRange, 60, {}), Window(MarketDrift, 100, {"signals"}) }

NewCall ==
    /\ pc \in {"idle", "assessed"}
    /\ clock < 2 * MaxCalls
    /\ df' \in LoopWindows
    /\ pc' = "called"
    /\ UNCHANGED <<analysis, risk_config, fp_tie_up, assessment, risk_history,
                   violations, trade_journal, clock, observed, solo,
                   backend, connector>>

Init ==
    /\ df = NoValue
    /\ analysis = NoValue
    /\ risk_config \in RiskConfigs \cup {NotAMapping}
    /\ fp_tie_up \in BOOLEAN
    /\ assessment = NoValue
    /\ risk_history = <<>>
    /\ violations = <<>>
    /\ trade_journal = <<>>
    /\ clock = 0
    /\ pc = "idle"
    /\ observed = {}
    /\ solo = NoValue
    /\ backend = NoValue
    /\ connector = NoValue

Next == NewCall \/ Analyze \/ Assess

Spec == Init /\ [][Next]_vars

(***************************************************************************)
(* Several threads call the pipeline on the one MarketAnalyzer and the one *)
(* RiskManager, each for a symbol of its own.  df, analysis, assessment    *)
(* and pc are per thread here; risk_history is the shared list.  The       *)
(* locals of a call are its own; the one access to shared state is         *)
(* self.risk_history.append(result), a single step between building the    *)
(* result and returning it.                                                *)
(***************************************************************************)
NumThreads == 2

Threads == 1..NumThreads

SymbolOf(t) == IF t = 1 THEN "EURUSD" ELSE IF t = 2 THEN "GBPUSD" ELSE "XAUUSD"

ThreadWindows(t) ==
    { [w EXCEPT !.symbol = SymbolOf(t)] :
          w \in {Window(MarketRally, 180, {}), Window(MarketSlide, 180, {})} }

\* the pipeline run alone on fresh objects, without its timestamps
Pipeline(d, cfg, tieUp) ==
    [analysis |-> SansTime(AnalyzeSymbol(d, 0)),
     assessment |-> SansTime(AssessTradeRisk(AnalyzeSymbol(d, 0), cfg, tieUp, 0))]

T_Analyze(t) ==
    /\ pc[t] = "called"
    /\ analysis' = [analysis EXCEPT ![t] = AnalyzeSymbol(df[t], clock)]
    /\ df' = [df EXCEPT ![t] = CallerFrame(df[t])]
    /\ clock' = clock + 1
    /\ pc' = [pc EXCEPT ![t] = "analyzed"]
    /\ UNCHANGED <<risk_config, fp_tie_up, assessment, risk_history, violations,
                   trade_journal, observed, solo, backend, connector>>

\* assess_trade_risk up to the result dict, or through its except branch
T_Assess(t) ==
    /\ pc[t] = "analyzed"
    /\ analysis[t] # Raised
    /\ assessment' = [assessment EXCEPT
                         ![t] = AssessTradeRisk(analysis[t], risk_config, fp_tie_up, clock)]
    /\ clock' = clock + 1
    /\ pc' = [pc EXCEPT
                 ![t] = IF AssessBody(analysis[t], risk_config, fp_tie_up, clock) = Raised
                        THEN "assessed" ELSE "built"]
    /\ UNCHANGED <<df, analysis, risk_config, fp_tie_up, risk_history, violations,
                   trade_journal, observed, solo, backend, connector>>

\* self.risk_history.append(result); return result
T_Append(t) ==
    /\ pc[t] = "built"
    /\ risk_history' = Append(risk_history, assessment[t])
    /\ pc' = [pc EXCEPT ![t] = "assessed"]
    /\ UNCHANGED <<df, analysis, risk_config, fp_tie_up, assessment, violations,
                   trade_journal, clock, observed, solo, backend, connector>>

InitConc ==
    /\ df \in {f \in [Threads -> UNION {ThreadWindows(t) : t \in Threads}] :
                  \A t \in Threads : f[t] \in ThreadWindows(t)}
    /\ analysis = [t \in Threads |-> NoValue]
    /\ risk_config \in RiskConfigs
    /\ fp_tie_up \in BOOLEAN
    /\ assessment = [t \in Threads |-> NoValue]
    /\ risk_history = <<>>
    /\ violations = <<>>
    /\ trade_journal = <<>>
    /\ clock = 0
    /\ pc = [t \in Threads |-> "called"]
    /\ observed = {}
    /\ solo = [t \in Threads |-> Pipeline(df[t], risk_config, fp_tie_up)]
    /\ backend = NoValue
    /\ connector = NoValue

NextConc == \E t \in Threads : T_Analyze(t) \/ T_Assess(t) \/ T_Append(t)

SpecConc == InitConc /\ [][NextConc]_vars

(***************************************************************************)
(* Properties of the decision policy                                       *)
(***************************************************************************)
Assessed == pc = "assessed"

Rejected == assessment.trade_signal = "NO_TRADE" /\ assessment.confidence = 0

NumCritical == Len(CriticalWarnings(assessment.overall_risk.warnings))

\* C1: whenever the combined overall risk score of a returned assessment is
\* above the configured ceiling max_risk_score, the assessment says NO_TRADE
\* with confidence 0, whatever the upstream primary signal is.
C1_CeilingRejects ==
    (Assessed /\ assessment.overall_risk.score > risk_config.max_risk_score)
        => Rejected

\* an assessment rejected for the ceiling alone: a strong buy of sufficient
\* confidence with fewer than two critical warnings
C1_Witness ==
    /\ Assessed
    /\ assessment.overall_risk.score > risk_config.max_risk_score
    /\ analysis.signals.primary = "STRONG_BUY"
    /\ analysis.signals.confidence >= risk_config.min_confidence
    /\ NumCritical < 2
    /\ Rejected

\* C2: a returned assessment says NO_TRADE with confidence 0 whenever the
\* upstream signal confidence is below the configured floor min_confidence,
\* and whenever at least two of its collected warnings contain a word of the
\* critical lexicon, whatever the upstream primary signal is.
C2_FloorAndCriticalReject ==
    (Assessed /\ (\/ analysis.signals.confidence < risk_config.min_confidence
                  \/ NumCritical >= 2))
        => Rejected

\* an assessment rejected for its two critical warnings alone
C2_Witness ==
    /\ Assessed
    /\ assessment.overall_risk.score <= risk_config.max_risk_score
    /\ analysis.signals.confidence >= risk_config.min_confidence
    /\ NumCritical = 2
    /\ analysis.signals.primary = "STRONG_SELL"
    /\ Rejected

Direction(primary) ==
    IF primary \in {"STRONG_BUY", "BUY"} THEN "BUY"
    ELSE IF primary \in {"STRONG_SELL", "SELL"} THEN "SELL"
    ELSE "HOLD"

Strong(primary) == primary \in {"STRONG_BUY", "STRONG_SELL"}

\* C3 as stated: an assessment that is not rejected follows the direction of
\* the upstream primary signal, its confidence is the upstream confidence
\* raised by at most 10 and only for the STRONG variants, and its confidence
\* never exceeds 95 for any upstream confidence in 0..100.
C3_AsStated ==
    (Assessed /\ assessment.trade_signal # "NO_TRADE") =>
        /\ assessment.trade_signal = Direction(analysis.signals.primary)
        /\ assessment.confidence >= analysis.signals.confidence
        /\ assessment.confidence <= analysis.signals.confidence + 10
        /\ ~Strong(analysis.signals.primary)
               => assessment.confidence = analysis.signals.confidence
        /\ assessment.confidence <= 95

\* C3: an assessment that is not rejected follows the direction of the
\* upstream primary signal; for the STRONG variants its confidence is
\* min(95, upstream confidence + 10), for BUY, SELL and HOLD it is the
\* upstream confidence unchanged, so it stays within 95 whenever the upstream
\* confidence does.
C3_DirectionAndBoost ==
    (Assessed /\ assessment.trade_signal # "NO_TRADE") =>
        /\ assessment.trade_signal = Direction(analysis.signals.primary)
        /\ Strong(analysis.signals.primary)
               => assessment.confidence = Min(95, analysis.signals.confidence + 10)
        /\ ~Strong(analysis.signals.primary)
               => assessment.confidence = analysis.signals.confidence
        /\ analysis.signals.confidence <= 95 => assessment.confidence <= 95

\* a strong buy of confidence 90 adopted as BUY with the boost cut at 95
C3_Witness ==
    /\ Assessed
    /\ analysis.signals.primary = "STRONG_BUY"
    /\ analysis.signals.confidence = 90
    /\ assessment.trade_signal = "BUY"
    /\ assessment.confidence = 95

SubScores ==
    <<assessment.technical_risk.score, assessment.price_risk.score,
      assessment.pattern_risk.score, assessment.level_risk.score,
      assessment.rr_risk.score, assessment.volume_risk.score,
      assessment.volatility_risk.score>>

\* C7: in every returned assessment each of the seven sub-scores lies in
\* [1, 10] and the weighted overall score lies in [1, 10] (10..100 tenths).
C7_ScoresInRange ==
    Assessed =>
        /\ \A i \in 1..7 : SubScores[i] \in 10..100
        /\ assessment.overall_risk.score \in 10..100

\* a valid price whose penalties add up to more than 10 is held at 10
C7_Witness ==
    /\ Assessed
    /\ analysis.price.current > 0
    /\ analysis.price.candle_type = "MARUBOZU"
    /\ assessment.price_risk.score = 100
    /\ assessment.overall_risk.score < 100

(***************************************************************************)
(* Properties of analyze_symbol                                            *)
(***************************************************************************)
Analyzed == pc \in {"analyzed", "assessed"}

\* C4: for a bar window of fewer than 100 bars, the empty one included,
\* analyze_symbol returns the empty-analysis record for the symbol and the
\* timeframe it was given, whatever its timestamp: primary signal HOLD,
\* strength 0, score 0, confidence 0, risk level VERY_HIGH, recommendation
\* WAIT, no patterns, an empty entry/exit bundle, and nothing contributed by
\* the indicator, pattern or level stages.
C4_ShortWindowIsEmptyAnalysis ==
    (Analyzed /\ df.ok /\ df.bars < 100) =>
        /\ analysis.symbol = df.symbol /\ analysis.timeframe = df.timeframe
        /\ analysis.signals.primary = "HOLD" /\ analysis.signals.strength = 0
        /\ analysis.score = 0 /\ analysis.confidence = 0
        /\ analysis.risk.level = "VERY_HIGH"
        /\ analysis.recommendation.action = "WAIT"
        /\ analysis.patterns.patterns = <<>>
        /\ analysis.entry_exit = EntryExitEmpty
        /\ analysis.current_price = 0
        /\ analysis.technical = TechnicalAbsent /\ analysis.overall_trend = "NEUTRAL"
        /\ analysis.key_levels = KeyLevelsAbsent
        /\ SansTime(analysis) = SansTime(GetEmptyAnalysis(df.symbol, df.timeframe, 0))

\* 99 bars of a rally that would be a strong buy on a full window
C4_Witness ==
    /\ pc = "analyzed"
    /\ df = Window(MarketRally, 99, {})
    /\ analysis.signals.primary = "HOLD"
    /\ AnalyzeSymbol(Window(MarketRally, 100, {}), 0).signals.primary = "STRONG_BUY"

AnalysisKeys == {"signals", "score", "confidence", "entry_exit", "risk", "recommendation"}

AssessmentKeys ==
    {"technical_risk", "price_risk", "pattern_risk", "level_risk", "rr_risk",
     "volume_risk", "volatility_risk", "overall_risk", "trade_signal", "confidence",
     "position_size_percent", "risk_level", "restrictions"}

\* C5: analyze_symbol and assess_trade_risk never raise to their caller:
\* whichever stage faults, analyze_symbol returns a record with
\* signals.primary, score, confidence, entry_exit, risk and recommendation,
\* and assess_trade_risk returns a record with the seven sub-scores,
\* overall_risk, a trade_signal among BUY, SELL, HOLD and NO_TRADE,
\* confidence, position_size_percent, risk_level and restrictions.
C5_NeverRaises ==
    /\ Analyzed =>
          /\ analysis # Raised
          /\ AnalysisKeys \subseteq DOMAIN analysis
          /\ "primary" \in DOMAIN analysis.signals
          /\ analysis.signals.primary \in Primaries
    /\ pc = "assessed" =>
          /\ assessment # Raised
          /\ AssessmentKeys \subseteq DOMAIN assessment
          /\ \A i \in 1..7 : SubScores[i] \in Int
          /\ assessment.overall_risk.score \in Int
          /\ assessment.trade_signal \in {"BUY", "SELL", "HOLD", "NO_TRADE"}

\* the read of the last close raised into the outer handler of analyze_symbol,
\* and the configuration that is no mapping into that of assess_trade_risk
C5_Witness ==
    /\ pc = "assessed"
    /\ df = NoCloseColumn
    /\ risk_config = NotAMapping
    /\ analysis.recommendation.action = "WAIT"
    /\ assessment.trade_signal = "HOLD"

\* C6: on the normal path, on every stage-fault path and on the
\* empty-analysis path, the score and the confidence of analyze_symbol's
\* result are integers in [0, 100] (multiples of 10 within 0..1000 tenths).
C6_ScoreAndConfidenceIntegers ==
    Analyzed =>
        /\ analysis.score \in 0..1000 /\ analysis.score % 10 = 0
        /\ analysis.confidence \in 0..1000 /\ analysis.confidence % 10 = 0

\* int() at work: 0.7 * 90 + 0.3 * 95 = 91.5 is returned as 91
C6_Witness ==
    /\ pc = "analyzed"
    /\ df.faults = {}
    /\ analysis.signals.strength = 90
    /\ analysis.technical.trend_strength = 95
    /\ analysis.score = 910

(***************************************************************************)
(* Properties of repeated calls                                            *)
(***************************************************************************)
\* C8: two calls of the pipeline on the same bar window and the same
\* configuration return the same analysis and the same assessment up to their
\* timestamps, whatever calls were made on the same analyzer and risk manager
\* before or between them.
C8_Deterministic ==
    \A x \in observed : \A y \in observed :
        (x.df = y.df /\ x.risk_config = y.risk_config)
            => (x.analysis = y.analysis /\ x.assessment = y.assessment)

\* the first and the third call were on the same window, the second on
\* another one
C8_Witness ==
    /\ pc = "assessed"
    /\ Len(risk_history) = 3
    /\ risk_history[1].timestamp < risk_history[3].timestamp
    /\ SansTime(risk_history[1]) = SansTime(risk_history[3])
    /\ SansTime(risk_history[2]) # SansTime(risk_history[1])
    /\ Cardinality(observed) = 2

CallChangesNothing ==
    pc \in {"called", "analyzed"} =>
        /\ df' = df
        /\ risk_history' = risk_history
        /\ violations' = violations
        /\ trade_journal' = trade_journal

\* C9 as stated: no call of analyze_symbol or assess_trade_risk changes a
\* field of the analyzer or the risk manager, risk_history, violations and
\* trade_journal included, or the caller's bar window.
C9_AsStated == [][CallChangesNothing]_vars

CallChangesHistoryOnly ==
    /\ pc = "called" =>
           /\ df' = df /\ risk_history' = risk_history
           /\ violations' = violations /\ trade_journal' = trade_journal
    /\ pc = "analyzed" =>
           /\ df' = df
           /\ violations' = violations /\ trade_journal' = trade_journal
           /\ risk_history' =
                  IF AssessBody(analysis, risk_config, fp_tie_up, clock) = Raised
                  THEN risk_history
                  ELSE Append(risk_history, assessment')

\* C9: no call changes violations, trade_journal or the caller's bar window,
\* and analyze_symbol changes nothing at all; assess_trade_risk appends the
\* assessment it returns to risk_history whenever its try block completes,
\* and leaves risk_history alone when it returns through its except branch.
C9_OnlyHistoryGrows == [][CallChangesHistoryOnly]_vars

\* after two calls on full windows the history holds their two assessments
C9_Witness ==
    /\ pc = "assessed"
    /\ df = Window(MarketSlide, 180, {})
    /\ Len(risk_history) = 2
    /\ risk_history[2] = assessment
    /\ violations = <<>> /\ trade_journal = <<>>

(***************************************************************************)
(* Properties of concurrent calls                                          *)
(***************************************************************************)
Returned(t) == pc[t] = "assessed"

SoloResults ==
    \A t \in Threads :
        /\ pc[t] # "called" => SansTime(analysis[t]) = solo[t].analysis
        /\ pc[t] \in {"built", "assessed"}
               => SansTime(assessment[t]) = solo[t].assessment

\* the one step on shared state never waits: whatever the other threads have
\* done, a call that has built its result can append it
NonBlocking == \A t \in Threads : pc[t] = "built" => ENABLED T_Append(t)

\* C10 as stated: under every interleaving each call returns what it returns
\* when run alone, no call waits for a lock, and the calls touch no shared
\* mutable state.
C10_AsStated ==
    /\ SoloResults
    /\ NonBlocking
    /\ risk_history = <<>>

\* C10: under every interleaving each call returns what it returns when run
\* alone, and no call waits for a lock; the calls do share one piece of
\* mutable state, the risk manager's risk_history, to which every completed
\* assessment is appended in the order the calls finish.
C10_SoloResultsNoLock ==
    /\ SoloResults
    /\ NonBlocking
    /\ Len(risk_history) = Cardinality({t \in Threads : Returned(t)})
    /\ \A t \in Threads :
           Returned(t) => \E i \in 1..Len(risk_history) : risk_history[i] = assessment[t]

\* thread 2 ran its whole call between thread 1 building its result and
\* thread 1 appending it
C10_Witness ==
    /\ \A t \in Threads : Returned(t)
    /\ assessment[1].timestamp < analysis[2].timestamp
    /\ risk_history[1] = assessment[2]
    /\ risk_history[Len(risk_history)] = assessment[1]

(***************************************************************************)
(* The level and entry/exit stages on their own: _identify_key_levels on   *)
(* the level lists found around a close of 10010 points, and               *)
(* _calculate_entry_exit_points on its result and a primary signal.  The lists are ascending and their      *)
(* levels more than 0.5% apart; a level of either kind may lie on either   *)
(* side of the price.                                                      *)
(***************************************************************************)
PointSupports == {<<>>, <<9890>>, <<9890, 9970>>, <<10050>>, <<9970, 10050>>}

PointResistances == {<<>>, <<10080>>, <<10080, 10210>>, <<10000>>, <<10000, 10080>>,
                     <<9890>>, <<10080, 10210, 10410>>,
                     <<9985, 10080>>}

PointAtrs == {0, 5, 40}

PointMarket(support, resistance, atr) ==
    [MarketFlat EXCEPT !.close = 10010, !.atr = atr,
                       !.support = support, !.resistance = resistance,
                       !.support_strengths = [i \in 1..Len(support) |-> 5],
                       !.resistance_strengths = [i \in 1..Len(resistance) |-> 5]]

PointWindows ==
    {Window(PointMarket(s, r, a), 180, {}) :
        s \in PointSupports, r \in PointResistances, a \in PointAtrs}

\* the call of _identify_key_levels in analyze_symbol
KeyLevels ==
    /\ pc = "signalled"
    /\ analysis' = [analysis EXCEPT !.key_levels = IdentifyKeyLevels(df, df.m)]
    /\ pc' = "levelled"
    /\ UNCHANGED <<df, risk_config, fp_tie_up, assessment, risk_history, violations,
                   trade_journal, clock, observed, solo, backend, connector>>

\* the call of _calculate_entry_exit_points in analyze_symbol
EntryExit ==
    /\ pc = "levelled"
    /\ analysis' = [analysis EXCEPT
                        !.entry_exit = CalculateEntryExitPoints(df, df.m, analysis.signals,
                                                                analysis.key_levels)]
    /\ pc' = "priced"
    /\ UNCHANGED <<df, risk_config, fp_tie_up, assessment, risk_history, violations,
                   trade_journal, clock, observed, solo, backend, connector>>

InitPoints ==
    /\ df \in PointWindows
    /\ \E p \in Primaries :
          analysis = [signals |-> [SignalsFault EXCEPT !.primary = p],
                      key_levels |-> NoValue,
                      entry_exit |-> NoValue]
    /\ risk_config = RiskConfigDefault
    /\ fp_tie_up = FALSE
    /\ assessment = NoValue
    /\ risk_history = <<>>
    /\ violations = <<>>
    /\ trade_journal = <<>>
    /\ clock = 0
    /\ pc = "signalled"
    /\ observed = {}
    /\ solo = NoValue
    /\ backend = NoValue
    /\ connector = NoValue

NextPoints == KeyLevels \/ EntryExit

SpecPoints == InitPoints /\ [][NextPoints]_vars

Priced == pc = "priced"

Directional == {"STRONG_BUY", "BUY", "SELL", "STRONG_SELL"}

BuyClass == {"STRONG_BUY", "BUY"}

SellClass == {"STRONG_SELL", "SELL"}

LevelsBelow(levels, price) == SelectSeq(levels, LAMBDA l : l < price)

LevelsAbove(levels, price) == SelectSeq(levels, LAMBDA l : l > price)

\* C18: every BUY-class signal has an entry, 0.1% above the highest support
\* below the price, or 0.2% below the price when no support lies below it
\* (empty list or all levels at or above the price); SELL mirrors this with
\* the resistance levels above the price.
C18_EntryAlwaysSet ==
    LET below == LevelsBelow(df.m.support, df.m.close)
        above == LevelsAbove(df.m.resistance, df.m.close)
    IN  /\ Priced /\ analysis.signals.primary \in BuyClass =>
              /\ analysis.entry_exit.kind = "set"
              /\ analysis.entry_exit.entry =
                     IF below # <<>> THEN RoundDiv(SeqMax(below) * 100100, 100000)
                     ELSE RoundDiv(df.m.close * 99800, 100000)
        /\ Priced /\ analysis.signals.primary \in SellClass =>
              /\ analysis.entry_exit.kind = "set"
              /\ analysis.entry_exit.entry =
                     IF above # <<>> THEN RoundDiv(SeqMin(above) * 99900, 100000)
                     ELSE RoundDiv(df.m.close * 100200, 100000)

\* C19: a BUY with at least two resistance levels above the entry has
\* take_profit_2 strictly above take_profit_1, and a SELL with at least two
\* support levels below the entry has take_profit_2 strictly below
\* take_profit_1.
C19_SecondTargetBeyondFirst ==
    Priced /\ analysis.entry_exit.kind = "set" =>
        /\ /\ analysis.signals.primary \in BuyClass
           /\ Len(LevelsAbove(df.m.resistance, analysis.entry_exit.entry)) >= 2
           => analysis.entry_exit.take_profit_2 > analysis.entry_exit.take_profit_1
        /\ /\ analysis.signals.primary \in SellClass
           /\ Len(LevelsBelow(df.m.support, analysis.entry_exit.entry)) >= 2
           => analysis.entry_exit.take_profit_2 < analysis.entry_exit.take_profit_1

\* the ratio is reward / risk rounded to two decimals (hundredths here)
RatioRounded(b) ==
    LET risk == Abs(b.entry - b.stop_loss)
        reward == Abs(b.take_profit_1 - b.entry)
    IN  2 * Abs(b.risk_reward_ratio * risk - reward * 100) <= risk

\* C20: with entry, stop_loss and take_profit_1 set and entry different from
\* stop_loss, risk_reward_ratio is |take_profit_1 - entry| / |entry - stop_loss|
\* rounded to two decimals and position_size_percent is 2.0 for a ratio >= 2,
\* 1.5 for a ratio >= 1.5 and below 2, and 1.0 for every lower ratio, 0 included.
C20_RatioAndPositionSize ==
    LET b == analysis.entry_exit
    IN  Priced /\ b.kind = "set" /\ b.entry # b.stop_loss =>
            /\ RatioRounded(b)
            /\ b.position_size_percent =
                   IF b.risk_reward_ratio >= 200 THEN 200
                   ELSE IF b.risk_reward_ratio >= 150 THEN 150
                   ELSE 100

(***************************************************************************)
(* The signal stage on its own: _generate_signals applied to the overall   *)
(* trend, momentum score, trend strength, detected patterns and proximity  *)
(* flags the earlier stages can hand it.                                   *)
(***************************************************************************)
OverallTrends == {"STRONG_BULLISH", "BULLISH", "NEUTRAL", "BEARISH", "STRONG_BEARISH"}

MomentumScores == {25, 35, 50, 65, 75}

TrendStrengths == {40, 60}

SignalPatterns == {<<>>, <<BULLISH_ENGULFING>>, <<HANGING_MAN>>, <<ASCENDING_TRIANGLE>>,
                   <<BULLISH_ENGULFING, EVENING_STAR>>, <<DOJI>>}

SignalWindow == Window(MarketFlat, 180, {})

InitSignals ==
    /\ df = SignalWindow
    /\ \E ot \in OverallTrends, ms \in MomentumScores, ts \in TrendStrengths,
          ps \in SignalPatterns, sc \in BOOLEAN, rc \in BOOLEAN :
          analysis =
             [technical_analysis |->
                 [technical |-> [TechnicalAbsent EXCEPT !.ok = TRUE,
                                                        !.momentum_score = ms,
                                                        !.trend_strength = ts],
                  overall_trend |-> ot],
              price |-> PriceAnalysis(df, df.m),
              patterns |-> PatternAnalysis(df, [MarketFlat EXCEPT !.patterns = ps]),
              key_levels |-> [KeyLevelsAbsent EXCEPT !.ok = TRUE,
                                                     !.support_close = sc,
                                                     !.resistance_close = rc],
              signals |-> NoValue]
    /\ risk_config = RiskConfigDefault
    /\ fp_tie_up = FALSE
    /\ assessment = NoValue
    /\ risk_history = <<>>
    /\ violations = <<>>
    /\ trade_journal = <<>>
    /\ clock = 0
    /\ pc = "prepared"
    /\ observed = {}
    /\ solo = NoValue
    /\ backend = NoValue
    /\ connector = NoValue

\* the call of _generate_signals in analyze_symbol
Signal ==
    /\ pc = "prepared"
    /\ analysis' = [analysis EXCEPT
                        !.signals = GenerateSignals(df, analysis.technical_analysis,
                                                    analysis.price, analysis.patterns,
                                                    analysis.key_levels)]
    /\ pc' = "signalled"
    /\ UNCHANGED <<df, risk_config, fp_tie_up, assessment, risk_history, violations,
                   trade_journal, clock, observed, solo, backend, connector>>

NextSignals == Signal

SpecSignals == InitSignals /\ [][NextSignals]_vars

Signalled == pc = "signalled" /\ "technical_analysis" \in DOMAIN analysis

CompositeScore ==
    SignalScore(analysis.technical_analysis, analysis.patterns, analysis.key_levels)

\* C16: the primary signal is STRONG_BUY iff the clamped score is >= 75, BUY
\* iff it is in [65, 75), STRONG_SELL iff it is <= 25, SELL iff it is in
\* (25, 35], and HOLD otherwise; risk_level is LOW for the two strong signals
\* and MEDIUM for BUY and SELL.
C16_PrimaryFollowsScore ==
    Signalled =>
        LET s == CompositeScore
            primary == analysis.signals.primary
        IN  /\ primary = "STRONG_BUY" <=> s >= 75
            /\ primary = "BUY" <=> 65 <= s /\ s < 75
            /\ primary = "STRONG_SELL" <=> s <= 25
            /\ primary = "SELL" <=> 25 < s /\ s <= 35
            /\ primary = "HOLD" <=> 35 < s /\ s < 65
            /\ primary \in {"STRONG_BUY", "STRONG_SELL"}
                  => analysis.signals.risk_level = "LOW"
            /\ primary \in {"BUY", "SELL"} => analysis.signals.risk_level = "MEDIUM"

C16_Witness ==
    /\ Signalled
    /\ CompositeScore = 74
    /\ analysis.signals.primary = "BUY"
    /\ analysis.signals.risk_level = "MEDIUM"

Levelled == pc \in {"levelled", "priced"}

\* C17: nearest_support is the highest support level strictly below the
\* price and nearest_resistance the lowest resistance level strictly above
\* it; the record is empty when no level lies on that side.
C17_NearestLevels ==
    LET below == LevelsBelow(df.m.support, df.m.close)
        above == LevelsAbove(df.m.resistance, df.m.close)
        nearest_support == analysis.key_levels.nearest_support
        nearest_resistance == analysis.key_levels.nearest_resistance
    IN  Levelled =>
            /\ IF below = <<>> THEN nearest_support = NoLevel
               ELSE nearest_support.found /\ nearest_support.level = SeqMax(below)
            /\ IF above = <<>> THEN nearest_resistance = NoLevel
               ELSE nearest_resistance.found /\ nearest_resistance.level = SeqMin(above)

VeryPoorRatio ==
    /\ Assessed
    /\ analysis.entry_exit.kind = "set"
    /\ analysis.entry_exit.risk_reward_ratio > 0
    /\ analysis.entry_exit.risk_reward_ratio < 100

VeryPoorWarning == "risk/reward ratio very poor - trade not recommended"

\* the stop distance is 1.5 to 2.5 times the ATR
IdealStop ==
    LET e == analysis.entry_exit
        atr == analysis.volatility.atr_value
    IN  /\ atr > 0 /\ e.entry > 0 /\ e.stop_loss > 0
        /\ 2 * Abs(e.entry - e.stop_loss) >= 3 * atr
        /\ 2 * Abs(e.entry - e.stop_loss) <= 5 * atr

\* C14 as stated: for every risk/reward ratio strictly between 0 and 1 the
\* risk/reward sub-score is at least 7 and its warnings include "very poor
\* R:R", whatever the entry, stop, ATR and target values are.
C14_AsStated ==
    VeryPoorRatio =>
        /\ assessment.rr_risk.score >= 70
        /\ VeryPoorWarning \in Range(assessment.rr_risk.warnings)

\* C14: for every risk/reward ratio strictly between 0 and 1 the risk/reward
\* sub-score is at least 6.5, is below 7 only when the stop is 1.5 to 2.5 ATR
\* from the entry, and its warnings include "very poor R:R".
C14_VeryPoorRatioScore ==
    VeryPoorRatio =>
        /\ assessment.rr_risk.score >= 65
        /\ assessment.rr_risk.score < 70 => IdealStop
        /\ VeryPoorWarning \in Range(assessment.rr_risk.warnings)

C14_Witness ==
    /\ VeryPoorRatio
    /\ analysis.entry_exit.risk_reward_ratio = 60
    /\ IdealStop
    /\ assessment.rr_risk.score = 65

(***************************************************************************)
(* MarketAnalyzer._find_support_levels and _find_resistance_levels.  A     *)
(* price column is carried as its distinct values in order of first        *)
(* occurrence, each with the number of bars that have it, split into the   *)
(* last `lookback` (100) bars and the bars before them; prices are in      *)
(* points of the fifth decimal around 1.00000.  Bars whose value occurs    *)
(* once are left out: they never reach a count of 3 and rank after every   *)
(* value that does.                                                        *)
(***************************************************************************)
\* np.round(x, 4)
Round4(x) == RoundDiv(x, 10) * 10

\* Counter(rounded): the rounded values in order of first occurrence with counts
CounterOf(column) ==
    LET rounded == [i \in 1..Len(column) |-> Round4(column[i].value)]
        firsts == SelectSeq([i \in 1..Len(column) |-> i],
                            LAMBDA i : \A j \in 1..(i - 1) : rounded[j] # rounded[i])
    IN  [k \in 1..Len(firsts) |->
            [value |-> rounded[firsts[k]],
             count |-> SeqSum([i \in 1..Len(column) |->
                                  IF rounded[i] = rounded[firsts[k]]
                                  THEN column[i].count ELSE 0])]]

\* Counter.most_common(n): the n highest counts, equal counts in order of
\* first occurrence
MostCommon(counter, n) ==
    LET Before(i, j) == \/ counter[i].count > counter[j].count
                        \/ counter[i].count = counter[j].count /\ i < j
        Rank(j) == Cardinality({i \in 1..Len(counter) : Before(i, j)})
    IN  SelectSeq([j \in 1..Len(counter) |-> j], LAMBDA j : Rank(j) < n)

RECURSIVE SortedAscending(_)
SortedAscending(S) ==
    IF S = {} THEN <<>>
    ELSE LET lowest == CHOOSE x \in S : \A y \in S : x <= y
         IN  <<lowest>> \o SortedAscending(S \ {lowest})

\* "if not filtered or price > filtered[-1] * 1.005", over the sorted prices
RECURSIVE FilterClose(_, _)
FilterClose(filtered, prices) ==
    IF prices = <<>> THEN filtered
    ELSE LET price == Head(prices)
         IN  IF filtered = <<>> \/ price * 1000 > filtered[Len(filtered)] * 1005
             THEN FilterClose(Append(filtered, price), Tail(prices))
             ELSE FilterClose(filtered, Tail(prices))

CommonValues(column) ==
    LET counter == CounterOf(column)
        top == MostCommon(counter, 10)
    IN  {counter[top[k]].value : k \in {i \in 1..Len(top) : counter[top[i]].count >= 3}}

FindSupportLevels_NoSpacing(d) ==
    LET filtered_lows == SortedAscending(CommonValues(d.lows))
    IN  SubSeq(filtered_lows, 1, Min(5, Len(filtered_lows)))

FindSupportLevels(d) ==
    LET filtered_lows == FilterClose(<<>>, SortedAscending(CommonValues(d.lows)))
    IN  SubSeq(filtered_lows, 1, Min(5, Len(filtered_lows)))

FindResistanceLevels(d) ==
    LET filtered_highs == FilterClose(<<>>, SortedAscending(CommonValues(d.highs)))
    IN  SubSeq(filtered_highs, 1, Min(5, Len(filtered_highs)))

\* the prices that bars of the last 100 may share, and how many bars share each
TouchPrices == <<100000, 100004, 100200, 100500, 100510, 101100, 102000>>

TouchCounts == {0, 2, 3}

\* five further prices, far apart, each touched by four bars
FarPrices == <<103000, 104000, 105000, 106000, 107000>>

Column(counts, far) ==
    SelectSeq([i \in 1..Len(TouchPrices) |-> [value |-> TouchPrices[i], count |-> counts[i]]],
              LAMBDA c : c.count > 0)
    \o (IF far THEN [i \in 1..Len(FarPrices) |-> [value |-> FarPrices[i], count |-> 4]]
        ELSE <<>>)

\* the highs of the same bars, each 700 points above the low
Raise(column) ==
    [i \in 1..Len(column) |-> [column[i] EXCEPT !.value = column[i].value + 700]]

\* a price touched three times before the last 100 bars
OlderBars == {<<>>, <<[value |-> 99000, count |-> 3]>>}

LevelWindows ==
    {[lows |-> Column(counts, far), highs |-> Raise(Column(counts, far)),
      older_lows |-> older, older_highs |-> Raise(older)] :
        counts \in [1..Len(TouchPrices) -> TouchCounts], far \in BOOLEAN,
        older \in OlderBars}

InitLevels ==
    /\ df \in LevelWindows
    /\ analysis = [support |-> NoValue, resistance |-> NoValue]
    /\ risk_config = RiskConfigDefault
    /\ fp_tie_up = FALSE
    /\ assessment = NoValue
    /\ risk_history = <<>>
    /\ violations = <<>>
    /\ trade_journal = <<>>
    /\ clock = 0
    /\ pc = "windowed"
    /\ observed = {}
    /\ solo = NoValue
    /\ backend = NoValue
    /\ connector = NoValue

\* the two calls at the head of _identify_key_levels
FindLevels ==
    /\ pc = "windowed"
    /\ analysis' = [support |-> FindSupportLevels(df),
                    resistance |-> FindResistanceLevels(df)]
    /\ pc' = "found"
    /\ UNCHANGED <<df, risk_config, fp_tie_up, assessment, risk_history, violations,
                   trade_journal, clock, observed, solo, backend, connector>>

NextLevels == FindLevels

SpecLevels == InitLevels /\ [][NextLevels]_vars

Found == pc = "found"

\* the number of bars of the column whose value rounds to the level
Touches(column, level) ==
    SeqSum([i \in 1..Len(column) |->
               IF Round4(column[i].value) = level THEN column[i].count ELSE 0])

WellFormedLevels(levels, column) ==
    /\ Len(levels) <= 5
    /\ \A i, j \in 1..Len(levels) :
          i < j => levels[i] < levels[j] /\ levels[j] * 1000 > levels[i] * 1005
    /\ \A i \in 1..Len(levels) : Touches(column, levels[i]) >= 3

\* C11: on each side no two retained levels are within 0.5% of each other,
\* at most 5 levels are kept in ascending order, and every level is a
\* rounded price that at least 3 of the last 100 lows (support) or highs
\* (resistance) have.
C11_LevelsSpacedAndFrequent ==
    Found =>
        /\ WellFormedLevels(analysis.support, df.lows)
        /\ WellFormedLevels(analysis.resistance, df.highs)

\* five levels kept out of more, one of them reached only by rounding two
\* prices together, and a frequent price dropped for being too close
C11_Witness ==
    /\ Found
    /\ Len(analysis.support) = 5
    /\ Cardinality(CommonValues(df.lows)) > 5
    /\ analysis.support[1] = 100000
    /\ \A i \in 1..Len(df.lows) : df.lows[i].count < 3 \/ df.lows[i].value > 100200
    /\ \E i \in 1..Len(df.lows) : df.lows[i].value = 100500 /\ df.lows[i].count = 3
    /\ Len(analysis.resistance) = 5

(***************************************************************************)
(* MarketAnalyzer._detect_candlestick_patterns on the bars of the frame,   *)
(* oldest first.  The comparisons with 0.3 and 0.1 are cross-multiplied;   *)
(* the prices of the windows below never make one of them an equality.     *)
(***************************************************************************)
Candle(name, p) ==
    [name |-> name, type |-> p.type, direction |-> p.direction,
     strength |-> p.strength, strength_score |-> p.strength_score]

DetectCandlestickPatterns_DojiPerBar(bars) ==
    LET n == Len(bars)
        first == bars[n - 2]
        prev == bars[n - 1]
        curr == bars[n]
        body_size == Abs(curr.close - curr.open)
        lower_shadow == Min(curr.open, curr.close) - curr.low
        upper_shadow == curr.high - Max(curr.open, curr.close)
        candle_range == curr.high - curr.low
        small_second == 10 * Abs(prev.close - prev.open) < 3 * (first.high - first.low)
        engulfing ==
            IF /\ prev.close < prev.open /\ curr.close > curr.open
               /\ curr.open < prev.close /\ curr.close > prev.open
            THEN <<Candle("BULLISH_ENGULFING", BULLISH_ENGULFING)>>
            ELSE IF /\ prev.close > prev.open /\ curr.close < curr.open
                    /\ curr.open > prev.close /\ curr.close < prev.open
            THEN <<Candle("BEARISH_ENGULFING",
                          Detected("BEARISH", "REVERSAL", "STRONG", 8))>>
            ELSE <<>>
        hammer ==
            IF /\ lower_shadow > body_size * 2 /\ 10 * upper_shadow < 3 * body_size
               /\ curr.close > curr.open
            THEN <<Candle("HAMMER", Detected("BULLISH", "REVERSAL", "MEDIUM", 6))>>
            ELSE IF /\ lower_shadow > body_size * 2 /\ 10 * upper_shadow < 3 * body_size
                    /\ curr.close < curr.open
            THEN <<Candle("HANGING_MAN", HANGING_MAN)>>
            ELSE <<>>
        doji ==
            LET IsDoji(b) == b.high - b.low > 0
                             /\ 10 * Abs(b.close - b.open) < b.high - b.low
                last_3 == <<first, prev, curr>>
            IN  [k \in 1..Len(SelectSeq(last_3, IsDoji)) |-> Candle("DOJI", DOJI)]
        star ==
            IF /\ first.close < first.open /\ small_second
               /\ curr.close > curr.open /\ curr.close > first.close
            THEN <<Candle("MORNING_STAR", Detected("BULLISH", "REVERSAL", "STRONG", 9))>>
            ELSE IF /\ first.close > first.open /\ small_second
                    /\ curr.close < curr.open /\ curr.close < first.close
            THEN <<Candle("EVENING_STAR", EVENING_STAR)>>
            ELSE <<>>
    IN  IF n < 3 THEN <<>>
        ELSE engulfing \o hammer \o doji \o star

DetectCandlestickPatterns(bars) ==
    LET n == Len(bars)
        first == bars[n - 2]
        prev == bars[n - 1]
        curr == bars[n]
        body_size == Abs(curr.close - curr.open)
        lower_shadow == Min(curr.open, curr.close) - curr.low
        upper_shadow == curr.high - Max(curr.open, curr.close)
        candle_range == curr.high - curr.low
        small_second == 10 * Abs(prev.close - prev.open) < 3 * (first.high - first.low)
        engulfing ==
            IF /\ prev.close < prev.open /\ curr.close > curr.open
               /\ curr.open < prev.close /\ curr.close > prev.open
            THEN <<Candle("BULLISH_ENGULFING", BULLISH_ENGULFING)>>
            ELSE IF /\ prev.close > prev.open /\ curr.close < curr.open
                    /\ curr.open > prev.close /\ curr.close < prev.open
            THEN <<Candle("BEARISH_ENGULFING",
                          Detected("BEARISH", "REVERSAL", "STRONG", 8))>>
            ELSE <<>>
        hammer ==
            IF /\ lower_shadow > body_size * 2 /\ 10 * upper_shadow < 3 * body_size
               /\ curr.close > curr.open
            THEN <<Candle("HAMMER", Detected("BULLISH", "REVERSAL", "MEDIUM", 6))>>
            ELSE IF /\ lower_shadow > body_size * 2 /\ 10 * upper_shadow < 3 * body_size
                    /\ curr.close < curr.open
            THEN <<Candle("HANGING_MAN", HANGING_MAN)>>
            ELSE <<>>
        doji ==
            IF candle_range > 0 /\ 10 * body_size < candle_range
            THEN <<Candle("DOJI", DOJI)>>
            ELSE <<>>
        star ==
            IF /\ first.close < first.open /\ small_second
               /\ curr.close > curr.open /\ curr.close > first.close
            THEN <<Candle("MORNING_STAR", Detected("BULLISH", "REVERSAL", "STRONG", 9))>>
            ELSE IF /\ first.close > first.open /\ small_second
                    /\ curr.close < curr.open /\ curr.close < first.close
            THEN <<Candle("EVENING_STAR", EVENING_STAR)>>
            ELSE <<>>
    IN  IF n < 3 THEN <<>>
        ELSE engulfing \o hammer \o doji \o star

CandlePrices == {0, 6, 9, 11}

Bar(o, h, l, c) == [open |-> o, high |-> h, low |-> l, close |-> c]

\* every bar over CandlePrices with low <= open, close <= high
CandleBars ==
    {b \in {Bar(o, h, l, c) : o \in CandlePrices, h \in CandlePrices,
                              l \in CandlePrices, c \in CandlePrices} :
        b.low <= Min(b.open, b.close) /\ Max(b.open, b.close) <= b.high}

\* the two earlier bars: without wicks, or without body and with one wick
EarlierBars ==
    {b \in CandleBars :
        \/ b.high = Max(b.open, b.close) /\ b.low = Min(b.open, b.close)
        \/ /\ b.open = b.close
           /\ \/ b.high = 11 /\ b.low = b.open /\ b.open < 11
              \/ b.low = 0 /\ b.high = b.open /\ b.open = 11}

CandleWindows ==
    {[bars |-> <<b1, b2, b3>>] : b1 \in EarlierBars, b2 \in EarlierBars, b3 \in CandleBars}
    \cup {[bars |-> <<b1, b2>>] : b1 \in EarlierBars, b2 \in EarlierBars}

InitCandles ==
    /\ df \in CandleWindows
    /\ analysis = [candlestick_patterns |-> NoValue]
    /\ risk_config = RiskConfigDefault
    /\ fp_tie_up = FALSE
    /\ assessment = NoValue
    /\ risk_history = <<>>
    /\ violations = <<>>
    /\ trade_journal = <<>>
    /\ clock = 0
    /\ pc = "loaded"
    /\ observed = {}
    /\ solo = NoValue
    /\ backend = NoValue
    /\ connector = NoValue

\* the call of _detect_candlestick_patterns in _pattern_analysis
DetectCandles ==
    /\ pc = "loaded"
    /\ analysis' = [candlestick_patterns |-> DetectCandlestickPatterns(df.bars)]
    /\ pc' = "detected"
    /\ UNCHANGED <<df, risk_config, fp_tie_up, assessment, risk_history, violations,
                   trade_journal, clock, observed, solo, backend, connector>>

NextCandles == DetectCandles

SpecCandles == InitCandles /\ [][NextCandles]_vars

\* the last three bars have no body and a non-zero range
ThreeDojiBars ==
    /\ pc = "detected"
    /\ Len(df.bars) >= 3
    /\ \A k \in 0..2 :
          LET b == df.bars[Len(df.bars) - k]
          IN  b.close = b.open /\ b.high > b.low

NamesReported == {analysis.candlestick_patterns[i].name :
                     i \in 1..Len(analysis.candlestick_patterns)}

NoReversalCandle ==
    NamesReported \cap {"BULLISH_ENGULFING", "BEARISH_ENGULFING", "HAMMER",
                        "HANGING_MAN", "MORNING_STAR", "EVENING_STAR"} = {}

\* C15 as stated: three last bars without body and with a range give a DOJI
\* of strength_score 3 for each of the three bars, and no engulfing, hammer,
\* hanging-man or star pattern.
C15_AsStated ==
    ThreeDojiBars =>
        /\ Len(SelectSeq(analysis.candlestick_patterns,
                         LAMBDA q : q.name = "DOJI" /\ q.strength_score = 3)) = 3
        /\ NoReversalCandle

\* C15: three last bars without body and with a range give exactly one
\* pattern, the DOJI of strength_score 3 detected on the last bar, and no
\* engulfing, hammer, hanging-man or star pattern.
C15_OneDojiForLastBar ==
    ThreeDojiBars =>
        /\ analysis.candlestick_patterns = <<Candle("DOJI", DOJI)>>
        /\ analysis.candlestick_patterns[1].strength_score = 3
        /\ NoReversalCandle

C15_Witness ==
    /\ ThreeDojiBars
    /\ df.bars[1] # df.bars[3]
    /\ Len(analysis.candlestick_patterns) = 1
    /\ analysis.candlestick_patterns[1].name = "DOJI"

(***************************************************************************)
(* Close columns that rise or fall bar after bar.  A column is given by    *)
(* its first close and two steps taken in turn; the EMA columns of         *)
(* _calculate_all_indicators (ewm with adjust=False, alpha 2/(window+1),   *)
(* NaN until `window` bars exist) are kept in thousandths of a point, and  *)
(* _analyze_trend reads the alignment of their last values.                *)
(***************************************************************************)
Close(r, t) ==
    r.start + ((t - 1) \div 2) * (r.step_a + r.step_b) + ((t - 1) % 2) * r.step_a

EmaStep(prev, close, window) == prev + (2 * (close * 1000 - prev)) \div (window + 1)

\* the EMA n bars after bar t, where it is prev (prices are positive)
RECURSIVE EmaRun(_, _, _, _, _)
EmaRun(prev, r, window, t, n) ==
    IF prev <= 0 \/ n = 0 THEN prev
    ELSE EmaRun(EmaStep(prev, Close(r, t + 1), window), r, window, t + 1, n - 1)

\* the EMA at bar t, advanced from the first close in runs of 16 bars
RECURSIVE Ema(_, _, _)
Ema(r, window, t) ==
    IF t = 1 THEN Close(r, 1) * 1000
    ELSE LET n == IF (t - 1) % 16 = 0 THEN 16 ELSE (t - 1) % 16
         IN  EmaRun(Ema(r, window, t - n), r, window, t - n, n)

EmaAlignment_Reversed(r) ==
    LET current_price == Close(r, r.bars) * 1000
        periods == <<9, 20, 50, 100, 200>>
        known(k) == r.bars >= periods[k]
        ema_prices == [k \in 1..5 |-> IF known(k) THEN Ema(r, periods[k], r.bars) ELSE 0]
        \* a comparison with the NaN of a window longer than the frame is False
        gt(a, b, defined) == defined /\ a > b
    IN  IF \A i \in 1..4 : /\ gt(current_price, ema_prices[i], known(i))
                            /\ gt(ema_prices[i + 1], ema_prices[i], known(i) /\ known(i + 1))
        THEN "STRONG_BULLISH"
        ELSE IF \A i \in 1..4 : /\ gt(ema_prices[i], current_price, known(i))
                                 /\ gt(ema_prices[i + 1], ema_prices[i],
                                       known(i) /\ known(i + 1))
        THEN "STRONG_BEARISH"
        ELSE IF gt(current_price, ema_prices[2], known(2))
                /\ gt(ema_prices[2], ema_prices[3], known(2) /\ known(3))
        THEN "BULLISH"
        ELSE IF gt(ema_prices[2], current_price, known(2))
                /\ gt(ema_prices[3], ema_prices[2], known(2) /\ known(3))
        THEN "BEARISH"
        ELSE "NEUTRAL"

EmaAlignment(r) ==
    LET current_price == Close(r, r.bars) * 1000
        periods == <<9, 20, 50, 100, 200>>
        known(k) == r.bars >= periods[k]
        ema_prices == [k \in 1..5 |-> IF known(k) THEN Ema(r, periods[k], r.bars) ELSE 0]
        \* a comparison with the NaN of a window longer than the frame is False
        gt(a, b, defined) == defined /\ a > b
    IN  IF \A i \in 1..4 : /\ gt(current_price, ema_prices[i], known(i))
                            /\ gt(ema_prices[i], ema_prices[i + 1], known(i) /\ known(i + 1))
        THEN "STRONG_BULLISH"
        ELSE IF \A i \in 1..4 : /\ gt(ema_prices[i], current_price, known(i))
                                 /\ gt(ema_prices[i + 1], ema_prices[i],
                                       known(i) /\ known(i + 1))
        THEN "STRONG_BEARISH"
        ELSE IF gt(current_price, ema_prices[2], known(2))
                /\ gt(ema_prices[2], ema_prices[3], known(2) /\ known(3))
        THEN "BULLISH"
        ELSE IF gt(ema_prices[2], current_price, known(2))
                /\ gt(ema_prices[3], ema_prices[2], known(2) /\ known(3))
        THEN "BEARISH"
        ELSE "NEUTRAL"

StrictlyIncreasing(r) == r.step_a > 0 /\ r.step_b > 0

Series ==
    {[start |-> 4000, step_a |-> a, step_b |-> b, bars |-> n] :
        a \in {2, 60}, b \in {2, 30}, n \in {150, 250, 260}}
    \cup {[start |-> 4000, step_a |-> 5, step_b |-> -3, bars |-> 250],
          [start |-> 4000, step_a |-> -10, step_b |-> -10, bars |-> 250]}

\* What a rising close leaves open: the stochastic signal, the ATR and the
\* Bollinger width (highs, lows and the size of the steps), a candle or
\* chart pattern, and a resistance level just above the price.  The RSI of
\* a column without a falling close is 100.
SeriesMarket(r, stoch, atr_permille, bb_width, patterns, near_resistance) ==
    [MarketFlat EXCEPT
        !.close = Close(r, r.bars),
        !.trend_direction = EmaAlignment(r),
        !.macd_cross = IF r.step_a > 0 THEN "BULLISH" ELSE "BEARISH",
        !.rsi_signal = IF StrictlyIncreasing(r) THEN "OVERBOUGHT" ELSE "NEUTRAL",
        !.stoch_signal = stoch,
        !.atr = (Close(r, r.bars) * atr_permille) \div 1000,
        !.bb_width = bb_width,
        !.bb_position = "UPPER_HALF",
        !.patterns = patterns,
        !.resistance = IF near_resistance
                       THEN <<Close(r, r.bars) + Close(r, r.bars) \div 500>>
                       ELSE <<>>,
        !.resistance_strengths = IF near_resistance THEN <<5>> ELSE <<>>]

SeriesWindows ==
    {Window(SeriesMarket(r, stoch, atr, bb, ps, nr), r.bars, {}) @@ [series |-> r] :
        r \in Series, stoch \in {"OVERBOUGHT", "BULLISH_CROSS", "BEARISH_CROSS"},
        atr \in {2, 8}, bb \in {25}, ps \in {<<>>, <<HANGING_MAN>>},
        nr \in BOOLEAN}

InitSeries ==
    /\ df \in SeriesWindows
    /\ analysis = NoValue
    /\ risk_config = RiskConfigDefault
    /\ fp_tie_up = FALSE
    /\ assessment = NoValue
    /\ risk_history = <<>>
    /\ violations = <<>>
    /\ trade_journal = <<>>
    /\ clock = 0
    /\ pc = "called"
    /\ observed = {}
    /\ solo = NoValue
    /\ backend = NoValue
    /\ connector = NoValue

NextSeries == Analyze

SpecSeries == InitSeries /\ [][NextSeries]_vars

LongRise ==
    /\ pc = "analyzed"
    /\ StrictlyIncreasing(df.series)
    /\ df.series.bars >= 250

\* C13 as stated: a strictly increasing series of at least 250 bars gives the
\* trend direction STRONG_BULLISH and a primary signal of BUY or STRONG_BUY.
C13_AsStated ==
    LongRise =>
        /\ analysis.technical.trend_direction = "STRONG_BULLISH"
        /\ analysis.signals.primary \in {"BUY", "STRONG_BUY"}

\* C13: a strictly increasing series of at least 250 bars gives the trend
\* direction STRONG_BULLISH, an overall trend of BULLISH or STRONG_BULLISH and
\* a primary signal that is never SELL or STRONG_SELL; it is BUY or
\* STRONG_BUY exactly when the composite score reaches 65.
C13_RiseIsNeverSold ==
    LongRise =>
        /\ analysis.technical.trend_direction = "STRONG_BULLISH"
        /\ analysis.technical.trend_strength = 95
        /\ analysis.overall_trend \in {"BULLISH", "STRONG_BULLISH"}
        /\ analysis.signals.primary \in {"HOLD", "BUY", "STRONG_BUY"}
        /\ analysis.signals.primary = "HOLD" <=> analysis.signals.strength = 0
        /\ analysis.signals.primary # "HOLD" => analysis.signals.strength >= 65

\* a steep rise: the volatility score leaves the overall trend at BULLISH and
\* the signal at HOLD
C13_Witness ==
    /\ LongRise
    /\ analysis.technical.trend_direction = "STRONG_BULLISH"
    /\ analysis.overall_trend = "BULLISH"
    /\ analysis.patterns.patterns = <<>>
    /\ analysis.key_levels.resistance = <<>>
    /\ analysis.technical.stoch_signal = "OVERBOUGHT"
    /\ analysis.signals.primary = "HOLD"

(***************************************************************************)
(* The closing steps of assess_trade_risk on their own: a RiskManager is   *)
(* handed analyses whose combined overall scores are drawn from Scores,    *)
(* and each call appends to risk_history the position size, the risk       *)
(* level and the restrictions it derives from that score.                  *)
(***************************************************************************)
\* overall scores in tenths: every bucket, its two ends and its interior
Scores == {10, 25, 30, 31, 35, 40, 41, 50, 51, 55, 59, 60, 61, 65, 69, 70, 71, 85, 100}

\* risk.max_trade_risk in hundredths of a percent: 0.1 %, 0.5 %, 1 %, 2 %, 4 %
TradeRisks == {10, 50, 100, 200, 400}

MaxRatings == 2

\* the fields of the result that depend on overall_risk['score'] alone
Rating(score, cfg) ==
    [overall_risk |-> [score |-> score],
     position_size_percent |-> CalculatePositionSize([score |-> score], cfg),
     risk_level |-> GetRiskLevel(score),
     restrictions |-> GetTradeRestrictions(score)]

Rate ==
    /\ pc = "rating"
    /\ Len(risk_history) < MaxRatings
    /\ \E score \in Scores :
           /\ assessment' = Rating(score, risk_config)
           /\ risk_history' = Append(risk_history, Rating(score, risk_config))
    /\ clock' = clock + 1
    /\ UNCHANGED <<df, analysis, risk_config, fp_tie_up, violations, trade_journal,
                   pc, observed, solo, backend, connector>>

InitRatings ==
    /\ df = NoValue
    /\ analysis = NoValue
    /\ \E m \in TradeRisks : risk_config = [RiskConfigDefault EXCEPT !.max_trade_risk = m]
    /\ fp_tie_up = FALSE
    /\ assessment = NoValue
    /\ risk_history = <<>>
    /\ violations = <<>>
    /\ trade_journal = <<>>
    /\ clock = 0
    /\ pc = "rating"
    /\ observed = {}
    /\ solo = NoValue
    /\ backend = NoValue
    /\ connector = NoValue

NextRatings == Rate

SpecRatings == InitRatings /\ [][NextRatings]_vars

Rated == pc = "rating" /\ Len(risk_history) > 0

\* the multiplier of the six bins, in tenths
Multiplier(score) ==
    IF score <= 30 THEN 15
    ELSE IF score <= 40 THEN 12
    ELSE IF score <= 50 THEN 10
    ELSE IF score <= 60 THEN 7
    ELSE IF score <= 70 THEN 5
    ELSE 3

\* C21 as stated: the position size is the multiplier of the score's bin times
\* the configured max_trade_risk, for every score and every max_trade_risk.
C21_AsStated ==
    Rated =>
        \A i \in 1..Len(risk_history) :
            risk_history[i].position_size_percent * 10
                = Multiplier(risk_history[i].overall_risk.score) * risk_config.max_trade_risk

\* C21: the position size is the multiplier of the score's bin times the
\* configured max_trade_risk, limited to the range 0.1 % .. 5 %, and of two
\* assessments under one configuration the one with the higher score never has
\* the larger position size.
C21_LimitedStepFunction ==
    Rated =>
        /\ \A i \in 1..Len(risk_history) :
               risk_history[i].position_size_percent * 10
                   = Max(100, Min(5000, Multiplier(risk_history[i].overall_risk.score)
                                            * risk_config.max_trade_risk))
        /\ \A i, j \in 1..Len(risk_history) :
               risk_history[i].overall_risk.score <= risk_history[j].overall_risk.score
                   => risk_history[j].position_size_percent
                          <= risk_history[i].position_size_percent

\* two assessments at 4 % per-trade risk: score 2.5 is cut back from 6 % to 5 %,
\* score 5.5 gets the smaller 2.8 %
C21_Witness ==
    /\ Rated
    /\ risk_config.max_trade_risk = 400
    /\ Len(risk_history) = 2
    /\ risk_history[1].overall_risk.score = 25
    /\ risk_history[1].position_size_percent = 500
    /\ risk_history[2].overall_risk.score = 55
    /\ risk_history[2].position_size_percent = 280

RiskierThan(a, b) == a.overall_risk.score > b.overall_risk.score

\* C22: two assessments in the same risk-level bucket carry identical
\* restrictions, and the riskier of two assessments never has the larger
\* position-size cap, leverage cap or hold-duration cap.
C22_RestrictionsFollowBucket ==
    Rated =>
        \A i, j \in 1..Len(risk_history) :
            LET a == risk_history[i]
                b == risk_history[j]
            IN  /\ a.risk_level = b.risk_level => a.restrictions = b.restrictions
                /\ RiskierThan(a, b) =>
                       /\ a.restrictions.max_position_size_percent
                              <= b.restrictions.max_position_size_percent
                       /\ a.restrictions.max_leverage <= b.restrictions.max_leverage
                       /\ a.restrictions.max_duration_days
                              <= b.restrictions.max_duration_days

(***************************************************************************)
(* Properties of the combination of the seven sub-scores                   *)
(***************************************************************************)
SubResults ==
    <<assessment.technical_risk, assessment.price_risk, assessment.pattern_risk,
      assessment.level_risk, assessment.rr_risk, assessment.volume_risk,
      assessment.volatility_risk>>

\* the assessment was built by the try block, not by _get_empty_assessment
Combined == Assessed /\ analysis.ok /\ risk_config.ok

\* the entries of the seven sub-scorers under key k, in the order of the scorers
Entries(k) ==
    IF k = "warnings" THEN Concat([i \in 1..7 |-> SubResults[i].warnings])
    ELSE Concat([i \in 1..7 |-> SubResults[i].factors])

FirstAt(s, x) == CHOOSE i \in 1..Len(s) : s[i] = x /\ \A j \in 1..(i - 1) : s[j] # x

\* list holds every entry of all exactly once, in the order of first occurrence
OnceInOrder(list, all) ==
    /\ Range(list) = Range(all)
    /\ \A i, j \in 1..Len(list) : i < j => list[i] # list[j]
    /\ \A i, j \in 1..Len(list) : i < j => FirstAt(all, list[i]) < FirstAt(all, list[j])

\* C23: the overall score is the weighted sum 0.20 technical + 0.15 price +
\* 0.10 pattern + 0.15 level + 0.20 risk/reward + 0.10 volume + 0.10
\* volatility of the seven sub-scores rounded to one decimal, and the
\* collected warnings and factors each hold every sub-scorer entry exactly
\* once, in the order of first occurrence.
C23_WeightedSumAndDedup ==
    Combined =>
        /\ Abs(assessment.overall_risk.score * 100
               - (20 * SubScores[1] + 15 * SubScores[2] + 10 * SubScores[3]
                  + 15 * SubScores[4] + 20 * SubScores[5] + 10 * SubScores[6]
                  + 10 * SubScores[7])) <= 50
        /\ OnceInOrder(assessment.overall_risk.warnings, Entries("warnings"))
        /\ OnceInOrder(assessment.overall_risk.factors, Entries("factors"))

\* the volume scorer names the bullish volume confirmation twice (OBV trend and
\* confirmation verdict); the collected factors name it once
C23_Witness ==
    /\ Combined
    /\ Len(assessment.overall_risk.factors) < Len(Entries("factors"))
    /\ Len(assessment.overall_risk.warnings) > 1
    /\ assessment.overall_risk.score # 50

\* C24: every bundle with prices produced for a BUY has stop_loss < entry <
\* take_profit_1, and every one produced for a SELL has take_profit_1 < entry <
\* stop_loss, whatever the level lists, the price and the ATR.
C24_StopEntryTargetOrdered ==
    LET b == analysis.entry_exit
    IN  Priced /\ b.kind = "set" =>
            /\ analysis.signals.primary \in BuyClass =>
                   b.stop_loss < b.entry /\ b.entry < b.take_profit_1
            /\ analysis.signals.primary \in SellClass =>
                   b.take_profit_1 < b.entry /\ b.entry < b.stop_loss

\* C25: whenever the analysis carries no usable risk/reward ratio (the key is
\* absent, null as in the bundle of a HOLD signal, or zero), the risk/reward
\* sub-scorer returns score 10 with the 'risk/reward ratio not computed'
\* warning and not the neutral default 5 of its except branch.
C25_NoRatioScoresTen ==
    (/\ Combined
     /\ analysis.technical.ok /\ analysis.volatility.ok
     /\ \/ analysis.entry_exit.kind \in {"empty", "null"}
        \/ analysis.entry_exit.risk_reward_ratio <= 0)
        => /\ assessment.rr_risk.score = 100
           /\ "risk/reward ratio not computed" \in Range(assessment.rr_risk.warnings)

(***************************************************************************)
(* TraderGuardianBackend (main.py): the analysis thread runs analysis_loop *)
(* and the monitoring thread runs monitoring_loop over the same backend    *)
(* object.  The threads share emergency_mode, mt5_connected and            *)
(* signal_queue; a step of a thread ends where it reads or writes one of   *)
(* them.  check_account_status, monitor_positions, check_violations,       *)
(* process_analysis_requests and process_alerts touch none of the three    *)
(* and are left out.  backend.enqueued and backend.delivered record, for   *)
(* every put on signal_queue and every write of shared_signals.txt, what   *)
(* the backend knew at that moment.                                        *)
(***************************************************************************)
MaxCycles == 1

MaxRounds == 2

\* what get_market_data hands the analysis loop; NoValue is its None
BackendWindows ==
    { Window(MarketRally, 180, {}), Window(MarketRally, 180, {"confidence"}),
      Window(MarketFlat, 180, {}), Window(MarketRange, 60, {}) }

\* mt5.symbol_info_tick(symbol); NoValue is a symbol or tick the terminal lacks
Quotes == {[ask |-> 10012, bid |-> 10010]}

\* mt5.account_info().balance
Balance == 10000

\* a signal line the EA left in ea_signals.txt, as read_ea_signals parses it
EaSignal ==
    [action |-> "BUY", symbol |-> "EURUSD", price |-> 10011, sl |-> 9950, tp |-> 10100,
     lot |-> 1, source |-> "EA"]

\* analysis_loop: the test that guards the call of generate_signal
ShouldGenerate_AnyConfidence(risk_assessment) ==
    risk_assessment.trade_signal \in {"BUY", "SELL"}

ShouldGenerate(risk_assessment) ==
    /\ risk_assessment.trade_signal \in {"BUY", "SELL"}
    /\ risk_assessment.confidence >= 70

\* calculate_lot_size, in hundredths of a lot: one point is one price unit,
\* tick_value = 10, volume_min 0.01, volume_max 100, volume_step 0.01
CalculateLotSize(entry_price, stop_loss, risk_amount) ==
    LET stop_distance_points == Abs(entry_price - stop_loss)
        lot_size == IF stop_distance_points > 0
                    THEN RoundDiv(risk_amount * 10, stop_distance_points)
                    ELSE 1
    IN  Min(Max(lot_size, 1), 10000)

\* dict.get(key, 0) on the analysis record
AnalysisGet(a, key) ==
    IF key \in DOMAIN a THEN a[key] ELSE 0

\* generate_signal: the signal dict it builds from the tick, the analysis and
\* the risk assessment
BuildSignal(a, risk_assessment, cfg, tick) ==
    LET risk_amount == (Balance * cfg.max_trade_risk) \div 10000
        entry_price == IF risk_assessment.trade_signal = "BUY" THEN tick.ask ELSE tick.bid
        stop_loss == AnalysisGet(a, "stop_loss")
        take_profit == AnalysisGet(a, "take_profit")
        lot_size == IF stop_loss > 0 /\ entry_price > 0
                    THEN CalculateLotSize(entry_price, stop_loss, risk_amount)
                    ELSE 1
    IN  [action |-> risk_assessment.trade_signal, symbol |-> a.symbol,
         price |-> entry_price, sl |-> stop_loss, tp |-> take_profit, lot |-> lot_size,
         confidence |-> risk_assessment.confidence,
         risk_percent |-> cfg.max_trade_risk, risk_amount |-> risk_amount,
         source |-> "SYSTEM"]

\* write_signals_to_ea: the line action|symbol|price|sl|tp|lot
FormatSignal(signal) ==
    [action |-> signal.action, symbol |-> signal.symbol, price |-> signal.price,
     sl |-> signal.sl, tp |-> signal.tp, lot |-> signal.lot]

\* analysis_loop, one symbol and timeframe: get_market_data and analyze_symbol
A_Analyze ==
    /\ pc.analysis = "idle"
    /\ backend.mt5_connected
    /\ backend.cycles < MaxCycles
    /\ backend' = [backend EXCEPT !.cycles = @ + 1]
    /\ \E d \in BackendWindows \cup {NoValue} :
           IF d = NoValue
           THEN UNCHANGED <<df, analysis, clock, pc>>
           ELSE /\ df' = CallerFrame(d)
                /\ analysis' = AnalyzeSymbol(d, clock)
                /\ clock' = clock + 1
                /\ pc' = [pc EXCEPT !.analysis = "analyzed"]
    /\ UNCHANGED <<risk_config, fp_tie_up, assessment, risk_history, violations,
                   trade_journal, observed, solo, connector>>

\* analysis_loop: assess_trade_risk, save_analysis and the test for
\* generate_signal
A_Assess ==
    /\ pc.analysis = "analyzed"
    /\ LET result == AssessTradeRisk(analysis, risk_config, fp_tie_up, clock)
       IN  /\ assessment' = result
           /\ risk_history' =
                  IF AssessBody(analysis, risk_config, fp_tie_up, clock) # Raised
                  THEN Append(risk_history, result)
                  ELSE risk_history
           /\ pc' = [pc EXCEPT !.analysis = IF ShouldGenerate(result)
                                            THEN "generate_signal"
                                            ELSE "idle"]
    /\ clock' = clock + 1
    /\ UNCHANGED <<df, analysis, risk_config, fp_tie_up, violations, trade_journal,
                   observed, solo, backend, connector>>

\* generate_signal: the two guards at its head
A_GenerateSignalGuards ==
    /\ pc.analysis = "generate_signal"
    /\ pc' = [pc EXCEPT !.analysis = IF backend.emergency_mode \/ ~backend.mt5_connected
                                     THEN "idle"
                                     ELSE "quoting"]
    /\ UNCHANGED <<df, analysis, risk_config, fp_tie_up, assessment, risk_history,
                   violations, trade_journal, clock, observed, solo, backend,
                   connector>>

\* generate_signal from account_info() to signal_queue.put(signal)
A_GenerateSignalPut ==
    /\ pc.analysis = "quoting"
    /\ \E tick \in Quotes \cup {NoValue} :
           IF tick = NoValue THEN UNCHANGED backend
           ELSE LET signal == BuildSignal(analysis, assessment, risk_config, tick)
                IN  backend' =
                        [backend EXCEPT
                            !.signal_queue = Append(@, signal),
                            !.enqueued = Append(@, [signal |-> signal,
                                                    bars |-> df.bars,
                                                    entry_exit |-> analysis.entry_exit,
                                                    trade_signal |-> assessment.trade_signal,
                                                    confidence |-> assessment.confidence,
                                                    emergency_mode |-> backend.emergency_mode])]
    /\ pc' = [pc EXCEPT !.analysis = "idle"]
    /\ UNCHANGED <<df, analysis, risk_config, fp_tie_up, assessment, risk_history,
                   violations, trade_journal, clock, observed, solo, connector>>

\* monitoring_loop: connect_to_mt5 when the terminal is not connected
M_Connect ==
    /\ pc.monitor = "start"
    /\ backend.rounds < MaxRounds
    /\ IF backend.mt5_connected
       THEN /\ pc' = [pc EXCEPT !.monitor = "read"]
            /\ UNCHANGED backend
       ELSE \E connected \in BOOLEAN :
                /\ backend' = [backend EXCEPT !.mt5_connected = connected,
                                              !.rounds = IF connected THEN @ ELSE @ + 1]
                /\ pc' = [pc EXCEPT !.monitor = IF connected THEN "read" ELSE "start"]
    /\ UNCHANGED <<df, analysis, risk_config, fp_tie_up, assessment, risk_history,
                   violations, trade_journal, clock, observed, solo, connector>>

\* communicate_with_ea: read_ea_signals
M_ReadEaSignals ==
    /\ pc.monitor = "read"
    /\ \E line \in {NoValue, EaSignal} :
           backend' = IF line = NoValue THEN backend
                      ELSE [backend EXCEPT !.signal_queue = Append(@, line)]
    /\ pc' = [pc EXCEPT !.monitor = "write"]
    /\ UNCHANGED <<df, analysis, risk_config, fp_tie_up, assessment, risk_history,
                   violations, trade_journal, clock, observed, solo, connector>>

\* communicate_with_ea: write_signals_to_ea
M_WriteSignalsToEa ==
    /\ pc.monitor = "write"
    /\ backend' =
           IF backend.signal_queue = <<>> THEN backend
           ELSE [backend EXCEPT
                    !.signal_queue = Tail(@),
                    !.shared_signals = FormatSignal(Head(backend.signal_queue)),
                    !.delivered = Append(@, [signal |-> Head(backend.signal_queue),
                                             line |-> FormatSignal(Head(backend.signal_queue)),
                                             emergency_mode |-> backend.emergency_mode])]
    /\ pc' = [pc EXCEPT !.monitor = "stats"]
    /\ UNCHANGED <<df, analysis, risk_config, fp_tie_up, assessment, risk_history,
                   violations, trade_journal, clock, observed, solo, connector>>

\* update_daily_stats: activate_emergency_mode once the day's loss has reached
\* risk.max_daily_risk
M_UpdateDailyStats ==
    /\ pc.monitor = "stats"
    /\ \E limit_reached \in BOOLEAN :
           backend' = [backend EXCEPT
                          !.emergency_mode = IF limit_reached THEN TRUE ELSE @,
                          !.rounds = @ + 1]
    /\ pc' = [pc EXCEPT !.monitor = "start"]
    /\ UNCHANGED <<df, analysis, risk_config, fp_tie_up, assessment, risk_history,
                   violations, trade_journal, clock, observed, solo, connector>>

InitBackend ==
    /\ df = NoValue
    /\ analysis = NoValue
    /\ risk_config \in RiskConfigs
    /\ fp_tie_up = FALSE
    /\ assessment = NoValue
    /\ risk_history = <<>>
    /\ violations = <<>>
    /\ trade_journal = <<>>
    /\ clock = 0
    /\ pc = [analysis |-> "idle", monitor |-> "start"]
    /\ observed = {}
    /\ solo = NoValue
    /\ backend = [mt5_connected |-> FALSE, emergency_mode |-> FALSE,
                  signal_queue |-> <<>>, shared_signals |-> NoValue,
                  enqueued |-> <<>>, delivered |-> <<>>, cycles |-> 0, rounds |-> 0]
    /\ connector = NoValue

NextBackend ==
    \/ A_Analyze
    \/ A_Assess
    \/ A_GenerateSignalGuards
    \/ A_GenerateSignalPut
    \/ M_Connect
    \/ M_ReadEaSignals
    \/ M_WriteSignalsToEa
    \/ M_UpdateDailyStats

SpecBackend == InitBackend /\ [][NextBackend]_vars

TradeActions == {"BUY", "SELL"}

\* C26: once emergency mode is active, no BUY or SELL signal of generate_signal
\* is written to the EA's shared signal file, whichever way the analysis
\* thread and the monitoring thread interleave and whenever the signal was
\* queued.
C26_NoDeliveryInEmergency ==
    \A i \in 1..Len(backend.delivered) :
        (backend.delivered[i].emergency_mode /\ backend.delivered[i].signal.source = "SYSTEM")
            => backend.delivered[i].signal.action \notin TradeActions

\* C29: a SYSTEM signal is queued only for an assessment whose trade_signal is
\* BUY or SELL with confidence at least 70, never for NO_TRADE or HOLD and
\* never for a window of fewer than 100 bars.
C29_QueuedOnlyWhenConfident ==
    \A i \in 1..Len(backend.enqueued) :
        LET e == backend.enqueued[i]
        IN  /\ e.trade_signal \in TradeActions
            /\ e.signal.action = e.trade_signal
            /\ e.confidence >= 70
            /\ e.bars >= MinBars

\* the BUY at confidence 95 assessed for a rally of 180 bars has been queued
\* and written for the EA
C29_Witness ==
    /\ Len(backend.enqueued) = 1
    /\ backend.enqueued[1].signal.source = "SYSTEM"
    /\ backend.enqueued[1].signal.action = "BUY"
    /\ backend.enqueued[1].confidence = 95
    /\ backend.enqueued[1].bars = 180
    /\ backend.shared_signals = FormatSignal(backend.enqueued[1].signal)

\* C30: a SYSTEM signal made from an analysis whose entry_exit has a stop_loss
\* and a take_profit_1 carries them as sl and tp, in the queue and in the line
\* written for the EA.
C30_SignalCarriesStopAndTarget ==
    /\ \A i \in 1..Len(backend.enqueued) :
           LET e == backend.enqueued[i]
           IN  e.entry_exit.kind = "set"
                   => /\ e.signal.sl = e.entry_exit.stop_loss
                      /\ e.signal.tp = e.entry_exit.take_profit_1
    /\ \A i \in 1..Len(backend.delivered) :
           backend.delivered[i].signal.source = "SYSTEM"
               => /\ backend.delivered[i].line.sl # 0
                  /\ backend.delivered[i].line.tp # 0

(***************************************************************************)
(* MT5Connector (mt5_connector.py): threads of the backend call            *)
(* connect(retry) and disconnect() on one connector.  connection_lock is a *)
(* threading.Lock: it is not reentrant, an acquire blocks while any frame, *)
(* the caller's own included, holds it.  connector.depth[t] counts the     *)
(* frames of connect that thread t has open, connector.result[t] is what   *)
(* its last call returned.                                                 *)
(***************************************************************************)
ConnectThreads == {1, 2}

MaxConnects == 3

\* self.max_reconnect_attempts
MaxReconnectAttempts == 5

\* the outcomes of mt5.initialize(...) and mt5.account_info() in connect
TerminalOutcomes == {"init_failed", "no_account", "connected", "raised"}

\* no frame holds connection_lock
Unlocked == 0

\* connect(retry): entering the method, up to the with statement
C_Call(t) ==
    /\ connector.pc[t] = "idle"
    /\ connector.calls < MaxConnects
    /\ \E retry \in BOOLEAN :
           connector' = [connector EXCEPT !.pc[t] = "acquire", !.depth[t] = 1,
                                          !.retry[t] = retry, !.result[t] = NoValue,
                                          !.calls = @ + 1]
    /\ UNCHANGED <<df, analysis, risk_config, fp_tie_up, assessment, risk_history,
                   violations, trade_journal, clock, pc, observed, solo, backend>>

\* with self.connection_lock: the acquire
C_Acquire(t) ==
    /\ connector.pc[t] = "acquire"
    /\ connector.connection_lock = Unlocked
    /\ connector' = [connector EXCEPT !.connection_lock = t, !.pc[t] = "locked"]
    /\ UNCHANGED <<df, analysis, risk_config, fp_tie_up, assessment, risk_history,
                   violations, trade_journal, clock, pc, observed, solo, backend>>

\* the return of a frame: the with statement releases the lock, and the
\* frames below it return the same value
ConnectReturn(c, t, value) ==
    [c EXCEPT !.connection_lock = Unlocked, !.pc[t] = "idle", !.depth[t] = 0,
              !.result[t] = value]

\* connect: the body under the lock, up to its return or its recursive call
ConnectBody(c, t, outcome) ==
    IF c.connected THEN ConnectReturn(c, t, TRUE)
    ELSE IF outcome = "init_failed"
    THEN IF c.retry[t] /\ c.reconnect_attempts < MaxReconnectAttempts
         THEN \* return self.connect(retry=True), inside the with block
              [c EXCEPT !.reconnect_attempts = @ + 1, !.retry[t] = TRUE,
                        !.depth[t] = @ + 1, !.pc[t] = "acquire"]
         ELSE ConnectReturn(c, t, FALSE)
    ELSE IF outcome = "connected"
    THEN ConnectReturn([c EXCEPT !.connected = TRUE, !.reconnect_attempts = 0], t, TRUE)
    ELSE ConnectReturn(c, t, FALSE)

C_Body(t) ==
    /\ connector.pc[t] = "locked"
    /\ \E outcome \in TerminalOutcomes : connector' = ConnectBody(connector, t, outcome)
    /\ UNCHANGED <<df, analysis, risk_config, fp_tie_up, assessment, risk_history,
                   violations, trade_journal, clock, pc, observed, solo, backend>>

\* disconnect(): the whole method, run when the lock is free
C_Disconnect(t) ==
    /\ connector.pc[t] = "idle"
    /\ connector.connection_lock = Unlocked
    /\ connector.connected
    /\ connector' = [connector EXCEPT !.connected = FALSE]
    /\ UNCHANGED <<df, analysis, risk_config, fp_tie_up, assessment, risk_history,
                   violations, trade_journal, clock, pc, observed, solo, backend>>

InitConnect ==
    /\ df = NoValue
    /\ analysis = NoValue
    /\ risk_config = RiskConfigDefault
    /\ fp_tie_up = FALSE
    /\ assessment = NoValue
    /\ risk_history = <<>>
    /\ violations = <<>>
    /\ trade_journal = <<>>
    /\ clock = 0
    /\ pc = "connecting"
    /\ observed = {}
    /\ solo = NoValue
    /\ backend = NoValue
    /\ connector = [connected |-> FALSE, reconnect_attempts |-> 0,
                    connection_lock |-> Unlocked,
                    pc |-> [t \in ConnectThreads |-> "idle"],
                    depth |-> [t \in ConnectThreads |-> 0],
                    retry |-> [t \in ConnectThreads |-> FALSE],
                    result |-> [t \in ConnectThreads |-> NoValue],
                    calls |-> 0]

NextConnect ==
    \E t \in ConnectThreads : C_Call(t) \/ C_Acquire(t) \/ C_Body(t) \/ C_Disconnect(t)

SpecConnect == InitConnect /\ [][NextConnect]_vars

\* C27: connect(retry=True) always returns: no call waits for connection_lock
\* while a frame of its own holds it, the retry counter never exceeds
\* max_reconnect_attempts, and while the connector is connected the counter
\* is 0.
C27_ConnectNeverBlocksItself ==
    /\ \A t \in ConnectThreads :
           ~(connector.pc[t] = "acquire" /\ connector.connection_lock = t)
    /\ connector.reconnect_attempts <= MaxReconnectAttempts
    /\ connector.connected => connector.reconnect_attempts = 0

(***************************************************************************)
(* MT5Connector.send_command and the command processor thread              *)
(* (mt5_connector.py).  Callers put commands on command_queue and poll     *)
(* response_queue; the processor thread takes a command, processes it and  *)
(* puts the result on response_queue.  The field "of" of a queue entry and *)
(* the sequence connector.removed are ghosts: they record which command a  *)
(* result was computed for and which entries a caller took without         *)
(* returning them.                                                         *)
(***************************************************************************)
CommandCallers == {1, 2}

MaxSends == 2

CommandTypes == {"GET_POSITIONS", "GET_ORDERS", "RESTART"}

TimeoutResponse == [success |-> FALSE, error |-> "Timeout waiting for response"]

\* response.get('id'); command ids start at 1, and 0 stands for the None
\* that a response without the key gives
ResponseId(response) == IF "id" \in DOMAIN response THEN response.id ELSE 0

\* _process_command: the dispatch on the command's type; success tells
\* whether the terminal answered the request
ProcessCommand(command, success) ==
    IF command.type \in {"GET_POSITIONS", "GET_ORDERS"}
    THEN [success |-> success]
    ELSE [success |-> FALSE, error |-> "Unknown command type"]

\* send_command: building the command and command_queue.put
S_Send(t) ==
    /\ connector.pc[t] = "idle"
    /\ connector.next_id <= MaxSends
    /\ \E type \in CommandTypes :
           LET command == [type |-> type, id |-> connector.next_id]
           IN  connector' = [connector EXCEPT
                   !.command_queue = Append(@, command),
                   !.command[t] = command, !.result[t] = NoValue,
                   !.pc[t] = "polling", !.next_id = @ + 1]
    /\ UNCHANGED <<df, analysis, risk_config, fp_tie_up, assessment, risk_history,
                   violations, trade_journal, clock, pc, observed, solo, backend>>

\* send_command: one round of the polling loop that finds the queue not empty
S_Poll(t) ==
    /\ connector.pc[t] = "polling"
    /\ connector.response_queue # <<>>
    /\ LET entry == Head(connector.response_queue)
       IN  IF ResponseId(entry.response) = connector.command[t].id
           THEN connector' = [connector EXCEPT
                    !.response_queue = Tail(@), !.result[t] = entry.response,
                    !.pc[t] = "idle"]
           ELSE connector' = [connector EXCEPT
                    !.response_queue = Tail(@),
                    !.removed = Append(@, [by |-> connector.command[t].id,
                                           of |-> entry.of])]
    /\ UNCHANGED <<df, analysis, risk_config, fp_tie_up, assessment, risk_history,
                   violations, trade_journal, clock, pc, observed, solo, backend>>

\* send_command: the loop ends because the timeout has elapsed
S_Timeout(t) ==
    /\ connector.pc[t] = "polling"
    /\ connector' = [connector EXCEPT !.result[t] = TimeoutResponse, !.pc[t] = "idle"]
    /\ UNCHANGED <<df, analysis, risk_config, fp_tie_up, assessment, risk_history,
                   violations, trade_journal, clock, pc, observed, solo, backend>>

\* processor(): one round of the thread's loop that finds a command
P_Process ==
    /\ connector.connected
    /\ connector.command_queue # <<>>
    /\ \E success \in BOOLEAN :
           LET command == Head(connector.command_queue)
           IN  connector' = [connector EXCEPT
                   !.command_queue = Tail(@),
                   !.response_queue = Append(@,
                       [response |-> ProcessCommand(command, success),
                        of |-> command.id])]
    /\ UNCHANGED <<df, analysis, risk_config, fp_tie_up, assessment, risk_history,
                   violations, trade_journal, clock, pc, observed, solo, backend>>

InitCommands ==
    /\ df = NoValue
    /\ analysis = NoValue
    /\ risk_config = RiskConfigDefault
    /\ fp_tie_up = FALSE
    /\ assessment = NoValue
    /\ risk_history = <<>>
    /\ violations = <<>>
    /\ trade_journal = <<>>
    /\ clock = 0
    /\ pc = "commands"
    /\ observed = {}
    /\ solo = NoValue
    /\ backend = NoValue
    /\ connector = [connected |-> TRUE,
                    command_queue |-> <<>>, response_queue |-> <<>>,
                    pc |-> [t \in CommandCallers |-> "idle"],
                    command |-> [t \in CommandCallers |-> NoValue],
                    result |-> [t \in CommandCallers |-> NoValue],
                    next_id |-> 1, removed |-> <<>>]

NextCommands ==
    \/ \E t \in CommandCallers : S_Send(t) \/ S_Poll(t) \/ S_Timeout(t)
    \/ P_Process

SpecCommands == InitCommands /\ [][NextCommands]_vars

\* C28: a caller of send_command that takes the result of its own command
\* from response_queue returns it, and no caller removes from
\* response_queue the result of another caller's command.
C28_ResponsesReachTheirCaller ==
    /\ ~\E i \in 1..Len(connector.removed) :
           connector.removed[i].of = connector.removed[i].by
    /\ ~\E i \in 1..Len(connector.removed) :
           connector.removed[i].of # connector.removed[i].by

====
